---- MODULE Spec2Model ----
(***************************************************************************)
(* A model of the per-frame simulation engine of Rog-Game: the React       *)
(* state updater gameLoop of useGameLoop.ts and the helpers it calls,      *)
(* the level-up handler of Game.tsx and the procedural weapon generator.   *)
(*                                                                         *)
(* Conventions.                                                            *)
(*  - Times are milliseconds of Date.now().                                *)
(*  - Health, shield and damage are integers in units of 1/HS hit point,   *)
(*    so that the fractions the code produces (0.75 absorption, 25% heals, *)
(*    x0.5 max health, x1.5 crits) are exact.                              *)
(*  - Difficulty modifiers and multipliers are integers in percent.        *)
(*  - Positions, sizes, speeds and distances are integers in units of     *)
(*    1/PS pixel (a monster's speed is 1.2 to 1.7 pixels per frame);       *)
(*    a position is the top-left corner.  Scenario entities share one row, *)
(*    so that the normalised direction vectors the code computes are       *)
(*    exactly (1,0) or (-1,0).                                             *)
(*  - A field that is undefined in the code is 0 here (both are falsy);    *)
(*    sequences are indexed from 1, so equippedWeaponIndex 0 is 1 here.    *)
(*  - The sessions modelled are played with auto-fire and auto-walk        *)
(*    switched off: the player is steered along the row and aims with the  *)
(*    mouse held on the row.  Allies, enemy projectiles, weapon drops,     *)
(*    chests, orbitals and the purely visual lists are not modelled.       *)
(***************************************************************************)
EXTENDS Integers, Sequences, FiniteSets, TLC

\* ---------------------------------------------------------------------
\* Program constants (constants.ts)
\* ---------------------------------------------------------------------
WORLD_WIDTH == 2400
WORLD_HEIGHT == 1800
PLAYER_SIZE == 20
MONSTER_SIZE == 24
BOSS_SIZE == 80
MINION_SIZE == 12
HEALER_SIZE == 26
WISP_SIZE == 22
BULLET_SIZE == 8
XP_GEM_SIZE == 10
HEALTH_PACK_SIZE == 24
SHIELD_PACK_SIZE == 24
EXPLOSIVE_BARREL_SIZE == 30
EXPLOSION_DURATION == 400
TARGET_INFO_LOCK_DURATION == 3000
DEATH_ANIMATION_DURATION == 1500
ALLY_SIZE == 20
MAX_ALLIES == 3
TREASURE_CHEST_SIZE == 28
MAX_TREASURE_CHESTS == 3
WISP_TELEPORT_COOLDOWN == 4000
WISP_TELEPORT_DURATION == 300
INVINCIBILITY_DURATION == 3000
BULLET_LIFESPAN == 3000
MAX_EQUIPPED_CARDS == 5

\* The unit of health: 1/HS hit point.
HS == 2 * 2 * 2

\* The unit of length: 1/PS pixel.
PS == 2 * 5

\* n pixels, in units of length
Px(n) == n * PS

\* DIFFICULTY_SETTINGS, in percent.
DIFFICULTY_SETTINGS ==
  [ normal |-> [ playerDamageTaken |-> 100, monsterHealth |-> 100,
                 monsterSpeed |-> 100, xpGain |-> 100, monsterDamage |-> 100 ],
    hard   |-> [ playerDamageTaken |-> 125, monsterHealth |-> 180,
                 monsterSpeed |-> 110, xpGain |-> 90, monsterDamage |-> 140 ] ]

\* INITIAL_WEAPON; fireRate is in hundredths of a shot per second, critChance
\* and critDamage are in percent; onImpact holds the descriptor of the zone
\* a bullet leaves, if the weapon has one.
INITIAL_WEAPON ==
  [ damage |-> 10, fireRate |-> 300, bulletSpeed |-> 6, bulletCount |-> 1,
    piercing |-> 1, critChance |-> 5, critDamage |-> 150, quality |-> 50,
    durability |-> 999999, clipSize |-> 20, ammoInClip |-> 20,
    reloadTime |-> 2000, onImpact |-> << >> ]

\* the Flamethrower of PREDEFINED_WEAPONS
Flamethrower ==
  [ damage |-> 5, fireRate |-> 2000, bulletSpeed |-> 5, bulletCount |-> 1,
    piercing |-> 1, critChance |-> 1, critDamage |-> 150, quality |-> 210,
    durability |-> 300, clipSize |-> 100, ammoInClip |-> 100,
    reloadTime |-> 3500,
    onImpact |-> << [ type |-> "fire", size |-> [width |-> 40 * PS, height |-> 40 * PS],
                      duration |-> 3000, damage |-> 15 ] >> ]

\* an empty weapon slot (null)
NoWeapon == [k \in DOMAIN INITIAL_WEAPON |-> IF k = "onImpact" THEN << >> ELSE 0]

\* PISTOL_WEAPON, the weapon in use when the selected slot is empty
PISTOL_WEAPON ==
  [ damage |-> 5, fireRate |-> 200, bulletSpeed |-> 7, bulletCount |-> 1,
    piercing |-> 1, critChance |-> 1, critDamage |-> 150, quality |-> 10,
    durability |-> 999999, clipSize |-> 12, ammoInClip |-> 12,
    reloadTime |-> 1500, onImpact |-> << >> ]

\* ---------------------------------------------------------------------
\* Arithmetic and geometry helpers
\* ---------------------------------------------------------------------
Min(a, b) == IF a < b THEN a ELSE b

Max(a, b) == IF a > b THEN a ELSE b

Abs(a) == IF a < 0 THEN -a ELSE a

\* Math.ceil(a / b) for b > 0
Ceil(a, b) == -((-a) \div b)

\* Math.sign
Sign(a) == IF a > 0 THEN 1 ELSE IF a < 0 THEN -1 ELSE 0

Vec(x, y) == [x |-> x, y |-> y]

\* the size of a w x w pixel square
Square(w) == [width |-> Px(w), height |-> Px(w)]

\* utils.ts checkCollision: strict AABB overlap
checkCollision(a, b) ==
  /\ a.position.x < b.position.x + b.size.width
  /\ a.position.x + a.size.width > b.position.x
  /\ a.position.y < b.position.y + b.size.height
  /\ a.position.y + a.size.height > b.position.y

\* TRUE iff collider c overlaps some element of the sequence objs
collidesAny(c, objs) == \E i \in 1..Len(objs) : checkCollision(c, objs[i])

\* a wrap that puts an entity leaving on the right one unit beyond the left
\* edge
wrapPastEdge(e) ==
  LET x == e.position.x
      y == e.position.y
      nx == IF x > Px(WORLD_WIDTH) THEN -e.size.width - 1
            ELSE IF x + e.size.width < 0 THEN Px(WORLD_WIDTH) ELSE x
      ny == IF y > Px(WORLD_HEIGHT) THEN -e.size.height - 1
            ELSE IF y + e.size.height < 0 THEN Px(WORLD_HEIGHT) ELSE y
  IN  Vec(nx, ny)

\* wrapSystem.ts handleWrapAround
handleWrapAround(e) ==
  LET x == e.position.x
      y == e.position.y
      nx == IF x > Px(WORLD_WIDTH) THEN -e.size.width
            ELSE IF x + e.size.width < 0 THEN Px(WORLD_WIDTH) ELSE x
      ny == IF y > Px(WORLD_HEIGHT) THEN -e.size.height
            ELSE IF y + e.size.height < 0 THEN Px(WORLD_HEIGHT) ELSE y
  IN  Vec(nx, ny)

\* a slide whose y-check stands at the x the entity tried, reverted or not
slideAtTriedX(e, moveVector, speed, obstacles) ==
  LET tx == e.position.x + moveVector.x * speed
      nx == IF collidesAny([position |-> Vec(tx, e.position.y), size |-> e.size], obstacles)
            THEN e.position.x ELSE tx
      ty == e.position.y + moveVector.y * speed
      ny == IF collidesAny([position |-> Vec(tx, ty), size |-> e.size], obstacles)
            THEN e.position.y ELSE ty
  IN  Vec(nx, ny)

\* utils.ts getSlidingMove: move on x, revert on collision; then move on y
\* from the original y at the (possibly reverted) x, revert on collision.
getSlidingMove(e, moveVector, speed, obstacles) ==
  LET tx == e.position.x + moveVector.x * speed
      nx == IF collidesAny([position |-> Vec(tx, e.position.y), size |-> e.size], obstacles)
            THEN e.position.x ELSE tx
      ty == e.position.y + moveVector.y * speed
      ny == IF collidesAny([position |-> Vec(nx, ty), size |-> e.size], obstacles)
            THEN e.position.y ELSE ty
  IN  Vec(nx, ny)

\* The number of random samples findSafeTeleportLocation draws at most.
maxTries == 100

\* The sample the k-th try draws: the stream of random positions is given
\* by a finite sequence whose last element repeats.
sampleAt(samples, k) == samples[Min(k, Len(samples))]

\* The first try (from k on) whose sample collides with nothing, 0 if none.
RECURSIVE firstSafeTry(_, _, _, _)
firstSafeTry(entitySize, existingObjects, samples, k) ==
  IF k > maxTries THEN 0
  ELSE IF ~collidesAny([position |-> sampleAt(samples, k), size |-> entitySize], existingObjects)
       THEN k
       ELSE IF k >= Len(samples) THEN 0
            ELSE firstSafeTry(entitySize, existingObjects, samples, k + 1)

\* a teleport to the first sample drawn, whatever stands there
firstSampleLocation(entitySize, existingObjects, samples) == sampleAt(samples, 1)

\* utils.ts findSafeTeleportLocation: the first collision-free sample of at
\* most maxTries, else the centre of the world (which may collide).
findSafeTeleportLocation(entitySize, existingObjects, samples) ==
  LET k == firstSafeTry(entitySize, existingObjects, samples, 1)
  IN  IF k = 0 THEN Vec(Px(WORLD_WIDTH) \div 2, Px(WORLD_HEIGHT) \div 2)
      ELSE sampleAt(samples, k)

\* ---------------------------------------------------------------------
\* Data: cards (cards.ts) and upgrades (upgrades.ts).  An effect's value is
\* in the stat's natural unit for op "add" and in percent for "multiply".
\* ---------------------------------------------------------------------
StatMod(stat, op, value) == [type |-> "STAT_MOD", stat |-> stat, op |-> op, value |-> value]

CARDS ==
  [ c_hp_1     |-> << StatMod("maxHealth", "add", 10) >>,
    c_speed_1  |-> << StatMod("speed", "multiply", 105) >>,
    c_shield_1 |-> << StatMod("maxShield", "add", 15) >>,
    r_thorns_1 |-> << StatMod("thornsDamage", "add", 5) >> ]

UPGRADES ==
  [ hp_up_1      |-> [isCursed |-> FALSE, effects |-> << StatMod("maxHealth", "add", 20) >>],
    thorns_1     |-> [isCursed |-> FALSE, effects |-> << StatMod("thornsDamage", "add", 15) >>],
    heal_1       |-> [isCursed |-> FALSE, effects |-> << [type |-> "HEAL", amount |-> 25] >>],
    max_shield_1 |-> [isCursed |-> FALSE, effects |-> << StatMod("maxShield", "add", 50) >>],
    add_shield_1 |-> [isCursed |-> FALSE, effects |-> << [type |-> "ADD_SHIELD", amount |-> 50] >>],
    pierce_up_1  |-> [isCursed |-> FALSE, effects |-> << [type |-> "WEAPON_MOD", mod |-> "piercing", value |-> 1] >>],
    curse_glass_cannon |->
      [isCursed |-> TRUE,
       effects |-> << StatMod("damageMultiplier", "multiply", 200),
                      StatMod("maxHealth", "multiply", 50) >>] ]

\* the standard upgrades of PREDEFINED_UPGRADES that UPGRADES carries, in the
\* order of the list; line 1143 of the loop draws from this list alone
PREDEFINED_UPGRADES ==
  << "hp_up_1", "pierce_up_1", "thorns_1", "heal_1", "max_shield_1", "add_shield_1" >>

\* the unit in which the model stores a player stat
unitOf(stat) ==
  IF stat \in {"maxHealth", "maxShield", "thornsDamage", "baseDamage"} THEN HS
  ELSE IF stat \in {"speed", "gemMagnetRadius"} THEN PS
  ELSE 1

\* ---------------------------------------------------------------------
\* Entities
\* ---------------------------------------------------------------------
\* a monster without aiState
NoAI ==
  [ type |-> "none", lastActionTime |-> 0, dashTarget |-> << >>, dashEndTime |-> 0,
    lastSpecialAttackTime |-> 0, lastMinionSpawnTime |-> 0,
    lastAttackTime |-> 0, isChargingAttack |-> FALSE, teleportData |-> << >> ]

\* the aiState handleMonsterAI and handleBossAI create
NewAI(t) == [NoAI EXCEPT !.type = "hesitate", !.lastActionTime = t]

\* a monster as the spawning code creates it
Monster(id, type, pos, size, speed, health, xpValue, level, phase) ==
  [ id |-> id, type |-> type, position |-> pos, size |-> Square(size),
    speed |-> speed, health |-> health, maxHealth |-> health,
    xpValue |-> xpValue, level |-> level, phase |-> phase, diesAt |-> 0,
    invincibleUntil |-> 0, aiState |-> NoAI, lastHealTime |-> 0,
    lastPosition |-> << >>, timeAtLastPosition |-> 0, isHidden |-> FALSE ]

\* an explosive barrel
Barrel(id, pos, health) ==
  [ id |-> id, position |-> pos, size |-> Square(EXPLOSIVE_BARREL_SIZE),
    health |-> health, maxHealth |-> health ]

\* an obstacle
Obstacle(id, pos, size, health) ==
  [ id |-> id, position |-> pos, size |-> size, health |-> health, maxHealth |-> health ]

\* an experience gem; owner is the id of the monster whose position object
\* the gem shares (line 1038: position: m.position)
Gem(pos, xpValue, owner) ==
  [ position |-> pos, size |-> Square(XP_GEM_SIZE), xpValue |-> xpValue, owner |-> owner ]

\* a health or shield pack; owner as for a gem, 0 if the position is its own
Pack(pos, size) == [ position |-> pos, size |-> Square(size), owner |-> 0 ]

\* ---------------------------------------------------------------------
\* getInitialState
\* ---------------------------------------------------------------------
\* one STAT_MOD effect of an equipped card applied to the starting player
applyCardEffect(p, e) ==
  IF e.type = "STAT_MOD" /\ e.stat \in {"maxHealth", "speed", "gemMagnetRadius", "thornsDamage",
                                         "maxShield", "baseDamage", "damageMultiplier"}
  THEN IF e.op = "add"
       THEN LET v  == e.value * unitOf(e.stat)
                p1 == [p EXCEPT ![e.stat] = @ + v]
            IN  IF e.stat = "maxHealth" THEN [p1 EXCEPT !.health = @ + v]
                ELSE IF e.stat = "maxShield" THEN [p1 EXCEPT !.shield = @ + v]
                ELSE p1
       ELSE IF e.op = "multiply" THEN [p EXCEPT ![e.stat] = (@ * e.value) \div 100]
       ELSE p
  ELSE p

RECURSIVE applyCardEffects(_, _)
applyCardEffects(p, effects) ==
  IF effects = << >> THEN p
  ELSE applyCardEffects(applyCardEffect(p, Head(effects)), Tail(effects))

\* equippedCards.forEach(card => card.effects.forEach(...))
RECURSIVE applyCards(_, _)
applyCards(p, cards) ==
  IF cards = << >> THEN p
  ELSE applyCards(applyCardEffects(p, CARDS[Head(cards)]), Tail(cards))

\* the largest id in a sequence of entities, 0 if empty
RECURSIVE maxId(_)
maxId(list) == IF list = << >> THEN 0 ELSE Max(Head(list).id, maxId(Tail(list)))

playerInitialPos ==
  Vec(Px(WORLD_WIDTH) \div 2 - Px(PLAYER_SIZE) \div 2, Px(WORLD_HEIGHT) \div 2 - Px(PLAYER_SIZE) \div 2)

basePlayer ==
  [ position |-> playerInitialPos, size |-> Square(PLAYER_SIZE),
    health |-> 100 * HS, maxHealth |-> 100 * HS, shield |-> 50 * HS, maxShield |-> 50 * HS,
    shieldAbsorption |-> 75, equippedWeaponIndex |-> 1,
    speed |-> Px(4), baseDamage |-> 0, damageMultiplier |-> 100, thornsDamage |-> 0,
    level |-> 1, xp |-> 0, xpToNextLevel |-> 100, gemMagnetRadius |-> Px(60),
    invincibleUntil |-> 0, isReloading |-> FALSE, reloadUntil |-> 0, buffs |-> << >> ]

\* The state getInitialState builds for a difficulty, the equipped cards, the
\* generated world objects and the stored leaderboard, once the mount effect
\* has set the theme of wave 1.  xp is in hundredths of a point.
\* a slot of the target display that holds nothing (null)
NoTarget == [id |-> 0, health |-> 0, lastHitTime |-> 0, lockedUntil |-> 0]

\* { ...hit, lastHitTime, lockedUntil }: what the display keeps of an
\* entity that was hit
Target(hit, lastHitTime, lockedUntil) ==
  [id |-> hit.id, health |-> hit.health, lastHitTime |-> lastHitTime, lockedUntil |-> lockedUntil]

\* the clock Date.now() at the start of a session
StartTime == 100 * 1000

getInitialState(difficulty, equippedCards, world, leaderboard) ==
  [ player |-> applyCards(basePlayer, equippedCards),
    equippedWeapons |-> << INITIAL_WEAPON, NoWeapon, NoWeapon >>,
    monsters |-> << >>, bullets |-> << >>, experienceGems |-> << >>,
    weaponDrops |-> << >>, pistol |-> PISTOL_WEAPON,
    allies |-> << >>, nextAllySpawnTime |-> StartTime + 30 * 1000,
    treasureChests |-> << >>, lastTreasureChestSpawnTime |-> 0,
    obstacles |-> world.obstacles, explosiveBarrels |-> world.barrels,
    explosions |-> << >>, damageZones |-> << >>,
    healthPacks |-> << >>, shieldPacks |-> << >>,
    score |-> 0, wave |-> 1, monstersToKillForNextWave |-> 10,
    monstersKilledThisWave |-> 0, isWaitingForBossClear |-> FALSE,
    isBossWave |-> FALSE, isGameOver |-> FALSE, isLevelingUp |-> FALSE,
    isPaused |-> FALSE, currentWaveTheme |-> 1, levelUpChoices |-> << >>,
    lastShotTime |-> 0, lastMonsterSpawnTime |-> 0,
    leaderboard |-> leaderboard,
    targetedMonsters |-> << NoTarget, NoTarget, NoTarget >>, targetedObstacle |-> NoTarget,
    difficultyModifiers |-> DIFFICULTY_SETTINGS[difficulty],
    nextId |-> 1 + maxId(world.obstacles \o world.barrels) ]

\* ---------------------------------------------------------------------
\* _takeDamage (useGameLoop.ts 259-302)
\* ---------------------------------------------------------------------
\* the number of entries the leaderboard keeps (slice(0, 10))
LEADERBOARD_SIZE == 10

\* entry e inserted into a list sorted by descending score, after the
\* entries of equal score: what the stable sort of [...list, e] yields
RECURSIVE insertByScore(_, _)
insertByScore(list, e) ==
  IF list = << >> THEN << e >>
  ELSE IF Head(list).score >= e.score THEN << Head(list) >> \o insertByScore(Tail(list), e)
       ELSE << e >> \o list

\* the entry put at the end of the list, which is then cut to ten
newLeaderboardUnsorted(leaderboard, entry) ==
  SubSeq(Append(leaderboard, entry), 1, Min(LEADERBOARD_SIZE, Len(leaderboard) + 1))

\* [...leaderboard, entry].sort((a, b) => b.score - a.score).slice(0, 10)
newLeaderboard(leaderboard, entry) ==
  LET sorted == insertByScore(leaderboard, entry)
  IN  SubSeq(sorted, 1, Min(LEADERBOARD_SIZE, Len(sorted)))

\* a hit whose absorbed part is lost on the shield but not spared the health
takeDamageUnabsorbed(d, t, amount) ==
  IF d.isGameOver \/ (d.player.invincibleUntil # 0 /\ t < d.player.invincibleUntil) THEN d
  ELSE
    LET finalAmount == Ceil(amount * d.difficultyModifiers.playerDamageTaken, 100)
        p == d.player
        damageToShield == Min(p.shield, finalAmount * HS)
        health1 == Max(0, p.health - finalAmount * HS)
    IN  [d EXCEPT !.player.invincibleUntil = t + INVINCIBILITY_DURATION,
                  !.player.shield = @ - damageToShield,
                  !.player.health = health1,
                  !.isGameOver = health1 <= 0,
                  !.ev.hits = Append(@, [shield |-> p.shield, health |-> p.health,
                                         absorption |-> 75, d |-> finalAmount,
                                         shieldAfter |-> p.shield - damageToShield,
                                         healthAfter |-> health1])]

\* The player of draft d takes a hit of `amount` hit points at time t.
takeDamage(d, t, amount) ==
  IF d.isGameOver \/ (d.player.invincibleUntil # 0 /\ t < d.player.invincibleUntil) THEN d
  ELSE
    LET finalAmount == Ceil(amount * d.difficultyModifiers.playerDamageTaken, 100) IN
    IF finalAmount <= 0 THEN d
    ELSE
      LET p == d.player
          damageToShield == Min(p.shield, finalAmount * HS)
          absorption == IF p.shieldAbsorption = 0 THEN 75 ELSE p.shieldAbsorption
          damageAbsorbedByShield == (damageToShield * absorption) \div 100
          remainingDamage == finalAmount * HS - damageAbsorbedByShield
          health1 == IF remainingDamage > 0 THEN Max(0, p.health - remainingDamage)
                     ELSE p.health
          p1 == [p EXCEPT !.invincibleUntil = t + INVINCIBILITY_DURATION,
                          !.shield = @ - damageToShield,
                          !.health = health1]
          d1 == [d EXCEPT !.player = p1,
                          !.ev.hits = Append(@, [shield |-> p.shield, health |-> p.health,
                                                 absorption |-> absorption, d |-> finalAmount,
                                                 shieldAfter |-> p1.shield, healthAfter |-> health1])]
      IN  IF health1 <= 0
          THEN [d1 EXCEPT !.isGameOver = TRUE,
                          !.leaderboard = newLeaderboard(d.leaderboard,
                                             [score |-> d.score, wave |-> d.wave])]
          ELSE d1

\* ---------------------------------------------------------------------
\* handleLevelUpSelect (Game.tsx 111-205)
\* ---------------------------------------------------------------------
\* one effect of the chosen upgrade applied to the pair st = [p, w] of the
\* player and the equipped weapons
applyUpgradeEffect(st, e) ==
  LET p == st.p IN
  CASE e.type = "STAT_MOD" ->
         IF e.op = "add"
         THEN LET v  == e.value * unitOf(e.stat)
                  p1 == [p EXCEPT ![e.stat] = @ + v]
              IN  [st EXCEPT !.p = IF e.stat = "maxHealth" THEN [p1 EXCEPT !.health = @ + v]
                                   ELSE IF e.stat = "maxShield" THEN [p1 EXCEPT !.shield = @ + v]
                                   ELSE p1]
         ELSE IF e.op = "multiply"
              THEN [st EXCEPT !.p[e.stat] = ((IF @ = 0 THEN unitOf(e.stat) ELSE @) * e.value) \div 100]
              ELSE st
    [] e.type = "WEAPON_MOD" ->
         [st EXCEPT !.w = [i \in DOMAIN st.w |->
                             IF st.w[i] = NoWeapon THEN NoWeapon
                             ELSE IF e.mod = "piercing"
                                  THEN [st.w[i] EXCEPT !.piercing = (IF @ = 0 THEN 1 ELSE @) + e.value]
                                  ELSE IF e.mod = "bulletCount"
                                       THEN [st.w[i] EXCEPT !.bulletCount = (IF @ = 0 THEN 1 ELSE @) + e.value]
                                       ELSE st.w[i]]]
    [] e.type = "HEAL" ->
         [st EXCEPT !.p.health = Min(p.maxHealth, p.health + (p.maxHealth * e.amount) \div 100)]
    [] e.type = "ADD_SHIELD" ->
         [st EXCEPT !.p.shield = Min(p.maxShield, p.shield + e.amount * HS)]
    [] OTHER -> st

RECURSIVE applyUpgradeEffects(_, _)
applyUpgradeEffects(st, effects) ==
  IF effects = << >> THEN st
  ELSE applyUpgradeEffects(applyUpgradeEffect(st, Head(effects)), Tail(effects))

\* no clamp at all
unclamped(p) == p

\* lines 197-198: the final clamp of health and shield
clampToMax(p) ==
  [p EXCEPT !.health = IF p.health > p.maxHealth THEN p.maxHealth ELSE p.health,
            !.shield = IF p.shield > p.maxShield THEN p.maxShield ELSE p.shield]

\* the state handleLevelUpSelect returns for the upgrade named choice
handleLevelUpSelect(prev, choice) ==
  LET st == applyUpgradeEffects([p |-> prev.player, w |-> prev.equippedWeapons],
                                UPGRADES[choice].effects)
  IN  [prev EXCEPT !.player = clampToMax(st.p),
                   !.equippedWeapons = st.w,
                   !.isLevelingUp = FALSE,
                   !.isPaused = FALSE,
                   !.score = IF UPGRADES[choice].isCursed THEN (@ * 12) \div 10 ELSE @,
                   !.levelUpChoices = << >>]

\* handlePauseToggle (Game.tsx 84-86)
handlePauseToggle(prev) == [prev EXCEPT !.isPaused = ~@]

\* ---------------------------------------------------------------------
\* gameLoop, step by step.  A draft d holds the frame's working copies:
\* the fields of the state plus newlyKilledMonsters, the ids of the
\* obstacles the frame replaced by copies, the obstacles as the bullets
\* left them, the gems as the pickup step left them, and the record ev of
\* what the frame did.
\* ---------------------------------------------------------------------
NoEvents ==
  [ gated |-> FALSE, hits |-> << >>, dash |-> << >>, exploded |-> << >>, untriggered |-> {},
    barrelHits |-> << >>, shots |-> << >>, spawned |-> 0, directorRan |-> FALSE,
    barrelStep |-> [player |-> << >>, monsters |-> << >>, explosiveBarrels |-> << >>],
    reached |-> FALSE, bossKilled |-> FALSE, homing |-> << >>, collected |-> 0,
    credited |-> << >>, offered |-> << >>, reloaded |-> << >>, allies |-> << >>,
    kills |-> << >> ]

draftOf(prev) ==
  prev @@ [ newlyKilledMonsters |-> << >>, copiedObstacles |-> {},
            hitObstacles |-> << >>, pulledGems |-> << >>, allObstacles |-> << >>,
            ev |-> NoEvents ]

\* [...obstacles, ...explosiveBarrels]
allObstaclesOf(d) == d.obstacles \o d.explosiveBarrels

\* the direction (dx, dy) / dist for a vector along an axis
unitVector(dx, dy) == Vec(Sign(dx), Sign(dy))

\* buffs.ts PREDEFINED_BUFFS: the duration and the effects of a buff; the
\* value of a multiplication is in percent
PREDEFINED_BUFFS ==
  << [ title |-> "Rage", duration |-> 10000,
       effects |-> << StatMod("damageMultiplier", "multiply", 150) >> ],
     [ title |-> "Haste", duration |-> 15000,
       effects |-> << StatMod("speed", "multiply", 130) >> ],
     [ title |-> "Rapid Fire", duration |-> 10000,
       effects |-> << StatMod("fireRate", "multiply", 140) >> ],
     [ title |-> "Ironskin", duration |-> 20000,
       effects |-> << [type |-> "ADD_SHIELD", amount |-> 100] >> ] >>

\* { ...randomBuff, id, createdAt: now } (line 1117)
Buff(k, t) ==
  [ title |-> PREDEFINED_BUFFS[k].title, duration |-> PREDEFINED_BUFFS[k].duration,
    effects |-> PREDEFINED_BUFFS[k].effects, createdAt |-> t ]

\* line 331: the buffs whose duration is not over
buffsStep(d, t) ==
  [d EXCEPT !.player.buffs = SelectSeq(@, LAMBDA b : t < b.createdAt + b.duration)]

\* lines 333-348: the player's speed and damage multiplier and the fire
\* rate multiplier (in percent) with the multiplications of the buffs
RECURSIVE buffed(_, _, _)
buffed(stats, effects, k) ==
  IF k > Len(effects) THEN stats
  ELSE LET e == effects[k]
           multiplied(stat) == e.type = "STAT_MOD" /\ e.op = "multiply" /\ e.stat = stat
       IN  buffed([ speed |-> IF multiplied("speed") THEN (stats.speed * e.value) \div 100
                              ELSE stats.speed,
                    damageMultiplier |-> IF multiplied("damageMultiplier")
                                         THEN (stats.damageMultiplier * e.value) \div 100
                                         ELSE stats.damageMultiplier,
                    fireRateMultiplier |-> IF multiplied("fireRate")
                                           THEN (stats.fireRateMultiplier * e.value) \div 100
                                           ELSE stats.fireRateMultiplier ],
                  effects, k + 1)

RECURSIVE effectsOf(_)
effectsOf(buffs) == IF buffs = << >> THEN << >> ELSE Head(buffs).effects \o effectsOf(Tail(buffs))

effectiveStats(player) ==
  buffed([ speed |-> player.speed, damageMultiplier |-> player.damageMultiplier,
           fireRateMultiplier |-> 100 ], effectsOf(player.buffs), 1)

\* lines 350-367: a reload that is due completes
reloadStep(d, t) ==
  IF d.player.isReloading /\ t >= d.player.reloadUntil
  THEN LET i == d.player.equippedWeaponIndex
           w == d.equippedWeapons[i]
           neededAmmo == w.clipSize - w.ammoInClip
           ammoFromReserve == Min(neededAmmo, w.durability)
           w1 == IF w # NoWeapon /\ ammoFromReserve > 0
                 THEN [w EXCEPT !.ammoInClip = @ + ammoFromReserve,
                                !.durability = IF @ < 9999 THEN @ - ammoFromReserve ELSE @]
                 ELSE w
       IN  [d EXCEPT !.equippedWeapons[i] = w1,
                     !.player.isReloading = FALSE,
                     !.player.reloadUntil = 0,
                     !.ev.reloaded = << [slot |-> i, from |-> w, to |-> w1] >>]
  ELSE d

\* lines 370-408: the player moves by the input vector and wraps
movePlayer(d, in) ==
  LET p  == d.player
      p1 == IF in.moveVector.x # 0 \/ in.moveVector.y # 0
            THEN [p EXCEPT !.position = getSlidingMove(p, in.moveVector, effectiveStats(p).speed,
                                                       allObstaclesOf(d))]
            ELSE p
  IN  [d EXCEPT !.player = [p1 EXCEPT !.position = handleWrapAround(p1)]]

\* line 415: the weapon in use is that of the selected slot, or the
\* shared PISTOL_WEAPON object when the slot is empty
weaponInUse(d) ==
  IF d.equippedWeapons[d.player.equippedWeaponIndex] # NoWeapon
  THEN d.equippedWeapons[d.player.equippedWeaponIndex]
  ELSE d.pistol

\* lines 411-490: auto-reload of an empty clip, then a shot along the row
\* towards the mouse (in.shooting is "left", "right" or "none")
shootStep(d, t, in) ==
  LET i  == d.player.equippedWeaponIndex
      w  == weaponInUse(d)
      d1 == IF w.ammoInClip <= 0 /\ ~d.player.isReloading /\ w.durability > 0
            THEN [d EXCEPT !.player.isReloading = TRUE,
                           !.player.reloadUntil = t + (IF w.reloadTime = 0 THEN 2000 ELSE w.reloadTime)]
            ELSE d
      p  == d1.player
  IN  IF /\ ~p.isReloading
         /\ in.shooting # "none"
         /\ (t - d.lastShotTime) * w.fireRate
              > (1000 * 100 * 100) \div effectiveStats(p).fireRateMultiplier
         /\ w.ammoInClip > 0
      THEN LET playerCenterX == p.position.x + p.size.width \div 2
               playerCenterY == p.position.y + p.size.height \div 2
               dir == IF in.shooting = "right" THEN 1 ELSE -1
               bullet == [ position |-> Vec(playerCenterX - Px(BULLET_SIZE) \div 2,
                                            playerCenterY - Px(BULLET_SIZE) \div 2),
                           size |-> Square(BULLET_SIZE),
                           velocity |-> Vec(dir * Px(w.bulletSpeed), 0),
                           damage |-> ((p.baseDamage + w.damage * HS) * effectiveStats(p).damageMultiplier) \div 100,
                           piercingLeft |-> IF w.piercing = 0 THEN 1 ELSE w.piercing,
                           createdAt |-> t, onImpact |-> w.onImpact ]
               fired == [d1 EXCEPT !.bullets = Append(@, bullet), !.lastShotTime = t]
           IN  IF d.equippedWeapons[i] # NoWeapon
               THEN [fired EXCEPT !.equippedWeapons[i].ammoInClip = @ - 1]
               ELSE [fired EXCEPT !.pistol.ammoInClip = @ - 1]
      ELSE d1

\* ---------------------------------------------------------------------
\* Monster AI.  A handler returns the updated monster, the monsters and the
\* barrels it creates and the other monsters it updates.
\* ---------------------------------------------------------------------
AIResult(m) ==
  [ updatedMonster |-> m, newMonsters |-> << >>, newExplosiveBarrels |-> << >>,
    updatedOtherMonsters |-> << >>, newHomingBullets |-> << >> ]

distSq(a, b) ==
  (a.position.x - b.position.x) * (a.position.x - b.position.x)
  + (a.position.y - b.position.y) * (a.position.y - b.position.y)

\* normalMonsterAI.ts lines 30-40: the player, or the first ally that is
\* closer to the monster than every target before it
RECURSIVE nearest(_, _, _, _)
nearest(monster, target, allies, k) ==
  IF k > Len(allies) THEN target
  ELSE nearest(monster,
               IF distSq(allies[k], monster) < distSq(target, monster) THEN allies[k] ELSE target,
               allies, k + 1)

\* normalMonsterAI.ts handleNormalMonsterAI and minionAI.ts handleMinionAI:
\* walk towards the player when farther than one pixel
handleNormalMonsterAI(monster, player, allies, allObstacles) ==
  LET target == nearest(monster, player, allies, 1)
      dx == target.position.x - monster.position.x
      dy == target.position.y - monster.position.y
  IN  IF dx * dx + dy * dy > Px(1) * Px(1)
      THEN AIResult([monster EXCEPT !.position =
                       getSlidingMove(monster, unitVector(dx, dy), monster.speed, allObstacles)])
      ELSE AIResult(monster)

\* the monsters of allMonsters a healer may heal: injured below 80%
injured(monster, allMonsters) ==
  { i \in 1..Len(allMonsters) :
      /\ allMonsters[i].id # monster.id
      /\ allMonsters[i].health * 10 < allMonsters[i].maxHealth * 8 }

\* wispAI.ts handleHealerAI: heal the nearest injured monster by 50 when in
\* range and off cooldown, else flee from the player
handleHealerAI(monster, player, allMonsters, allObstacles, t) ==
  LET cand == injured(monster, allMonsters) IN
  IF cand # {}
  THEN LET k == CHOOSE i \in cand :
                  \A j \in cand : \/ distSq(allMonsters[i], monster) < distSq(allMonsters[j], monster)
                                  \/ (distSq(allMonsters[i], monster) = distSq(allMonsters[j], monster) /\ i <= j)
           healTarget == allMonsters[k]
           dx == healTarget.position.x - monster.position.x
           dy == healTarget.position.y - monster.position.y
           dSq == dx * dx + dy * dy
           moved == IF dSq > Px(150) * Px(150)
                    THEN [monster EXCEPT !.position =
                            getSlidingMove(monster, unitVector(dx, dy), monster.speed, allObstacles)]
                    ELSE monster
       IN  IF dSq < Px(160) * Px(160) /\ t - monster.lastHealTime > 3000
           THEN [AIResult([moved EXCEPT !.lastHealTime = t]) EXCEPT
                   !.updatedOtherMonsters =
                      << [healTarget EXCEPT !.health = Min(healTarget.maxHealth, healTarget.health + 50 * HS)] >>]
           ELSE AIResult(moved)
  ELSE LET dx == player.position.x - monster.position.x
           dy == player.position.y - monster.position.y
       IN  IF dx * dx + dy * dy > 0
           THEN AIResult([monster EXCEPT !.position =
                            getSlidingMove(monster, unitVector(-dx, -dy), monster.speed, allObstacles)])
           ELSE AIResult(monster)

\* a phase that gives way as soon as a tenth of the health is gone
nextPhaseEarly(currentPhase, health, maxHealth) ==
  IF currentPhase = 2 /\ health * 100 < maxHealth * 90 THEN 3
  ELSE IF currentPhase = 1 /\ health * 100 < maxHealth * 90 THEN 2
  ELSE currentPhase

\* bossAI.ts lines 58-62: the phase that follows currentPhase at a health
nextPhaseOf(currentPhase, health, maxHealth) ==
  IF currentPhase = 2 /\ health * 100 < maxHealth * 40 THEN 3
  ELSE IF currentPhase = 1 /\ health * 100 < maxHealth * 75 THEN 2
  ELSE currentPhase

\* bossAI.ts handleBossAI.  in.randomAction is the roll of Math.random() in
\* percent, in.minionOffsets the horizontal offsets of the minions spawned.
\* The projectiles of the barrage are not modelled.
handleBossAI(monster, player, allObstacles, difficultyModifiers, t, in) ==
  LET \* --- minion spawning (lines 163-179)
      spawning(m3, newBarrels) ==
        LET phase == IF m3.phase = 0 THEN 1 ELSE m3.phase
            spawns == t - m3.aiState.lastMinionSpawnTime > 8000 - phase * 1000
        IN  [ updatedMonster |-> IF spawns THEN [m3 EXCEPT !.aiState.lastMinionSpawnTime = t] ELSE m3,
              newMonsters |->
                IF spawns
                THEN [ i \in 1..(1 + phase) |->
                         Monster(0, "minion",
                                 Vec(monster.position.x + in.minionOffsets[i], monster.position.y),
                                 MINION_SIZE, (18 * difficultyModifiers.monsterSpeed) \div 100,
                                 (30 * HS * difficultyModifiers.monsterHealth) \div 100, 5, 0, 0) ]
                ELSE << >>,
              newExplosiveBarrels |-> newBarrels, updatedOtherMonsters |-> << >>,
              newHomingBullets |-> << >> ]
      \* --- the action states (lines 111-161)
      acting(m2, timeInState) ==
        LET throws == /\ m2.aiState.type = "throwing"
                      /\ ~(timeInState > 2500)
                      /\ t - m2.aiState.lastSpecialAttackTime > 800
        IN  spawning(
              CASE m2.aiState.type = "barrage" /\ timeInState > 3000 ->
                     [m2 EXCEPT !.aiState.type = "hesitate", !.aiState.lastActionTime = t]
                [] m2.aiState.type = "charging" /\ timeInState > 1500 ->
                     [m2 EXCEPT !.aiState.type = "dashing", !.aiState.lastActionTime = t,
                                !.aiState.dashTarget = << player.position >>,
                                !.aiState.dashEndTime = t + 1000]
                [] m2.aiState.type = "throwing" /\ timeInState > 2500 ->
                     [m2 EXCEPT !.aiState.type = "hesitate", !.aiState.lastActionTime = t]
                [] throws -> [m2 EXCEPT !.aiState.lastSpecialAttackTime = t]
                [] OTHER -> m2,
              IF throws THEN << Barrel(0, monster.position, 1 * HS) >> ELSE << >>)
      \* --- active dash, or leaving hesitation (lines 83-108)
      moving(m1) ==
        LET timeInState == t - m1.aiState.lastActionTime
            dx == m1.aiState.dashTarget[1].x - m1.position.x
            dy == m1.aiState.dashTarget[1].y - m1.position.y
        IN  acting(
              IF m1.aiState.type = "dashing" /\ m1.aiState.dashTarget # << >>
              THEN IF dx * dx + dy * dy < Px(30) * Px(30) \/ t > m1.aiState.dashEndTime
                   THEN [m1 EXCEPT !.aiState.type = "hesitate", !.aiState.lastActionTime = t]
                   ELSE [m1 EXCEPT !.position =
                           getSlidingMove(m1, unitVector(dx, dy), m1.speed * 3, allObstacles)]
              ELSE IF m1.aiState.type = "hesitate" /\ timeInState > 2000
                   THEN [m1 EXCEPT !.aiState.lastActionTime = t,
                                   !.aiState.type = IF in.randomAction < 40 THEN "barrage"
                                                    ELSE IF in.randomAction < 70 /\ m1.phase >= 2 THEN "charging"
                                                    ELSE "throwing"]
                   ELSE m1,
              timeInState)
      \* --- phase transition (lines 57-69)
      phasing(m0) ==
        LET currentPhase == IF m0.phase = 0 THEN 1 ELSE m0.phase
            nextPhase == nextPhaseOf(currentPhase, m0.health, m0.maxHealth)
        IN  moving(IF nextPhase > currentPhase
                   THEN [m0 EXCEPT !.phase = nextPhase, !.invincibleUntil = t + 2000,
                                   !.aiState.type = "hesitate", !.aiState.lastActionTime = t]
                   ELSE m0)
  IN  phasing(IF monster.aiState.type = "none" THEN [monster EXCEPT !.aiState = NewAI(t)] ELSE monster)

\* wispAI.ts line 82: the charge of the attack is over
chargeOver(aiState, t) == aiState.isChargingAttack /\ t - aiState.lastActionTime > 1000

\* wispAI.ts handleWispAI.  A wisp that is teleporting reappears at its
\* destination once WISP_TELEPORT_DURATION has passed and starts charging;
\* any other wisp starts a teleport when the cooldown since the last one is
\* over, and then fires its homing bullet when its charge is over.
\* in.wispTo are the positions findSafeTeleportLocation draws.
handleWispAI(monster, player, allObstacles, difficultyModifiers, t, in) ==
  LET firing(m1) ==
        IF chargeOver(m1.aiState, t)
        THEN [AIResult([m1 EXCEPT !.aiState.isChargingAttack = FALSE]) EXCEPT
                !.newHomingBullets =
                   << [ sourceId |-> monster.id, createdAt |-> t,
                        position |-> Vec(m1.position.x + m1.size.width \div 2,
                                         m1.position.y + m1.size.height \div 2),
                        damage |-> (15 * difficultyModifiers.monsterDamage) \div 100 ] >>]
        ELSE AIResult(m1)
      deciding(m0) ==
        IF t - m0.aiState.lastAttackTime > WISP_TELEPORT_COOLDOWN
        THEN firing([m0 EXCEPT !.aiState.type = "teleporting",
                               !.aiState.lastActionTime = t,
                               !.aiState.lastAttackTime = t,
                               !.aiState.teleportData =
                                  << [ from |-> m0.position,
                                       to |-> findSafeTeleportLocation(m0.size, allObstacles, in.wispTo),
                                       startTime |-> t ] >>,
                               !.isHidden = TRUE])
        ELSE firing(m0)
      arriving(m0) ==
        IF t >= m0.aiState.teleportData[1].startTime + WISP_TELEPORT_DURATION
        THEN AIResult([m0 EXCEPT !.position = m0.aiState.teleportData[1].to,
                                 !.isHidden = FALSE,
                                 !.aiState.type = "hesitate",
                                 !.aiState.lastActionTime = t,
                                 !.aiState.isChargingAttack = TRUE])
        ELSE AIResult(m0)
      started(m0) ==
        IF m0.aiState.type = "teleporting" /\ m0.aiState.teleportData # << >>
        THEN arriving(m0) ELSE deciding(m0)
  IN  started(IF monster.aiState.type = "none" THEN [monster EXCEPT !.aiState = NewAI(t)] ELSE monster)

\* bloaterAI.ts handleMonsterAI: create the aiState of a complex monster
\* that has none, then dispatch on the type
handleMonsterAI(monster, player, allMonsters, allies, allObstacles, difficultyModifiers, t, in) ==
  LET m == IF monster.type \in {"healer", "wisp", "boss"} /\ monster.aiState.type = "none"
           THEN [monster EXCEPT !.aiState = NewAI(t)]
           ELSE monster
  IN  CASE m.type = "healer" -> handleHealerAI(m, player, allMonsters, allObstacles, t)
        [] m.type = "wisp" -> handleWispAI(m, player, allObstacles, difficultyModifiers, t, in)
        [] m.type = "boss" -> handleBossAI(m, player, allObstacles, difficultyModifiers, t, in)
        [] OTHER -> handleNormalMonsterAI(m, player, allies, allObstacles)

\* the concatenation of a sequence of sequences
RECURSIVE flatten(_)
flatten(ss) == IF ss = << >> THEN << >> ELSE Head(ss) \o flatten(Tail(ss))

\* list with the fresh ids first+1, first+2, ... given to its elements in
\* order (uuid(): d.nextId is the model's source of ids never used before)
renumber(list, first) == [i \in 1..Len(list) |-> [list[i] EXCEPT !.id = first + i]]

\* lines 540-588: every living monster runs its AI on the frame's starting
\* lists; then the updates are merged: a heal decides the health, the
\* monster's own update everything else
aiStep(d, t, in) ==
  LET monsters == d.monsters
      livingMonsters == SelectSeq(monsters, LAMBDA m : m.diesAt = 0)
      allObstacles == allObstaclesOf(d)
      merge(res) ==
        LET others == flatten([ i \in 1..Len(monsters) |-> res[i].updatedOtherMonsters ])
            healed(id) == { k \in 1..Len(others) : others[k].id = id }
            lastHeal(id) == others[CHOOSE k \in healed(id) : \A j \in healed(id) : j <= k]
            newMonsters == flatten([ i \in 1..Len(monsters) |-> res[i].newMonsters ])
            newBarrels == flatten([ i \in 1..Len(monsters) |-> res[i].newExplosiveBarrels ])
        IN  [d EXCEPT !.monsters =
                        [ i \in 1..Len(monsters) |->
                            IF monsters[i].diesAt # 0 THEN monsters[i]
                            ELSE IF healed(monsters[i].id) # {}
                                 THEN [res[i].updatedMonster EXCEPT !.health = lastHeal(monsters[i].id).health]
                                 ELSE res[i].updatedMonster ]
                        \o renumber(newMonsters, d.nextId - 1),
                      !.explosiveBarrels = @ \o renumber(newBarrels, d.nextId - 1 + Len(newMonsters)),
                      !.nextId = @ + Len(newMonsters) + Len(newBarrels),
                      !.ev.homing = flatten([ i \in 1..Len(monsters) |-> res[i].newHomingBullets ])]
  IN  merge([ i \in 1..Len(monsters) |->
                IF monsters[i].diesAt = 0
                THEN handleMonsterAI(monsters[i], d.player, livingMonsters, d.allies, allObstacles,
                                     d.difficultyModifiers, t, in)
                ELSE AIResult(monsters[i]) ])

\* lines 592-597: the allies after their AI (an ally stays where it is:
\* the AI returns one updated ally per ally) pass through the wrap
allyStep(d) ==
  [d EXCEPT !.allies = [i \in 1..Len(d.allies) |->
                          [d.allies[i] EXCEPT !.position = handleWrapAround(d.allies[i])]]]

\* lines 600-629: a living monster wraps, and one that has not moved for
\* more than two seconds is teleported
stuckCheck(m, allObstacles, t, in) ==
  IF m.diesAt # 0 THEN m
  ELSE
    LET m1 == [m EXCEPT !.position = handleWrapAround(m)]
        posChanged == /\ m1.lastPosition # << >>
                      /\ \/ Abs(m1.position.x - m1.lastPosition[1].x) > 1
                         \/ Abs(m1.position.y - m1.lastPosition[1].y) > 1
        m2 == IF m1.lastPosition # << >> /\ ~posChanged
              THEN IF m1.timeAtLastPosition = 0 THEN [m1 EXCEPT !.timeAtLastPosition = t] ELSE m1
              ELSE [m1 EXCEPT !.timeAtLastPosition = 0]
        isStuck == m2.timeAtLastPosition # 0 /\ t - m2.timeAtLastPosition > 2000
        m3 == IF isStuck
              THEN [m2 EXCEPT !.position = findSafeTeleportLocation(m2.size, allObstacles, in.teleport),
                              !.timeAtLastPosition = 0]
              ELSE m2
    IN  [m3 EXCEPT !.lastPosition = << m3.position >>]

\* allObstacles is still the array built at line 328, before the frame's AI
\* added barrels
stuckStep(d, allObstacles, t, in) ==
  [d EXCEPT !.monsters = [i \in 1..Len(@) |-> stuckCheck(@[i], allObstacles, t, in)]]

\* ---------------------------------------------------------------------
\* explosiveBarrelAI.ts processExplosiveBarrels
\* ---------------------------------------------------------------------
centerOf(e) == Vec(e.position.x + e.size.width \div 2, e.position.y + e.size.height \div 2)

\* the side of an explosion's square and its damage
EXPLOSION_SIZE == 150

EXPLOSION_DAMAGE == 100

\* a barrel that only the player or a living monster sets off
touched(barrel, player, monsters) ==
  \/ checkCollision(player, barrel)
  \/ \E i \in 1..Len(monsters) : monsters[i].diesAt = 0 /\ checkCollision(monsters[i], barrel)

\* stage 1: a barrel explodes when its health is used up, or it overlaps
\* the player or a monster that is not dying
triggered(barrel, player, monsters) ==
  \/ barrel.health <= 0
  \/ checkCollision(player, barrel)
  \/ \E i \in 1..Len(monsters) : monsters[i].diesAt = 0 /\ checkCollision(monsters[i], barrel)

\* TRUE iff the centre c lies within the blast radius of the barrel at pos
inBlast(c, pos) ==
  LET ex == pos.x + Px(EXPLOSIVE_BARREL_SIZE) \div 2
      ey == pos.y + Px(EXPLOSIVE_BARREL_SIZE) \div 2
  IN  (c.x - ex) * (c.x - ex) + (c.y - ey) * (c.y - ey)
        < (Px(EXPLOSION_SIZE) \div 2) * (Px(EXPLOSION_SIZE) \div 2)

\* the bounding square of the blast of the barrel at pos
explosionCollider(pos) ==
  [ position |-> Vec(pos.x + Px(EXPLOSIVE_BARREL_SIZE) \div 2 - Px(EXPLOSION_SIZE) \div 2,
                     pos.y + Px(EXPLOSIVE_BARREL_SIZE) \div 2 - Px(EXPLOSION_SIZE) \div 2),
    size |-> Square(EXPLOSION_SIZE) ]

\* stage 2 for one explosion: the player, the living monsters in the radius
\* and the obstacles that meet the bounding square are damaged; no barrel is
explode(d, exp, t) ==
  LET d1 == IF inBlast(centerOf(d.player), exp.position)
            THEN takeDamage(d, t, EXPLOSION_DAMAGE) ELSE d
      hitObstacles == { i \in 1..Len(d1.obstacles) :
                          checkCollision(d1.obstacles[i], explosionCollider(exp.position)) }
  IN  [d1 EXCEPT
         !.explosions = Append(@, [position |-> exp.position, createdAt |-> t]),
         !.ev.exploded = Append(@, [id |-> exp.id, position |-> exp.position]),
         !.monsters = [i \in 1..Len(@) |->
                         IF @[i].diesAt = 0 /\ inBlast(centerOf(@[i]), exp.position)
                         THEN [@[i] EXCEPT !.health = @ - EXPLOSION_DAMAGE * HS]
                         ELSE @[i]],
         !.obstacles = [i \in 1..Len(@) |->
                          IF i \in hitObstacles
                          THEN [@[i] EXCEPT !.health = @ - EXPLOSION_DAMAGE * 2 * HS]
                          ELSE @[i]],
         !.copiedObstacles = @ \cup { d1.obstacles[i].id : i \in hitObstacles }]

RECURSIVE explodeAll(_, _, _)
explodeAll(d, exps, t) ==
  IF exps = << >> THEN d ELSE explodeAll(explode(d, Head(exps), t), Tail(exps), t)

\* barrels left behind scorched: the ones in a blast lose its damage
scorchedBarrels(explosiveBarrels, barrelsToExplode) ==
  LET rest == SelectSeq(explosiveBarrels,
                        LAMBDA b : \A k \in 1..Len(barrelsToExplode) : barrelsToExplode[k].id # b.id)
  IN  [ i \in 1..Len(rest) |->
          IF \E k \in 1..Len(barrelsToExplode) : inBlast(centerOf(rest[i]), barrelsToExplode[k].position)
          THEN [rest[i] EXCEPT !.health = @ - EXPLOSION_DAMAGE * HS]
          ELSE rest[i] ]

\* stage 3 (line 127): the barrels that did not explode, as they were
remainingBarrels(explosiveBarrels, barrelsToExplode) ==
  SelectSeq(explosiveBarrels,
            LAMBDA b : \A k \in 1..Len(barrelsToExplode) : barrelsToExplode[k].id # b.id)

processExplosiveBarrels(d, t) ==
  LET barrelsToExplode == SelectSeq(d.explosiveBarrels,
                                    LAMBDA b : triggered(b, d.player, d.monsters))
      d1 == explodeAll(d, barrelsToExplode, t)
  IN  [d1 EXCEPT
         !.explosiveBarrels = remainingBarrels(d.explosiveBarrels, barrelsToExplode),
         !.targetedObstacle = IF @.id # 0 /\ \E k \in 1..Len(barrelsToExplode) :
                                                 barrelsToExplode[k].id = @.id
                              THEN NoTarget ELSE @,
         !.ev.barrelStep = [player |-> << d.player >>, monsters |-> d.monsters,
                            explosiveBarrels |-> d.explosiveBarrels],
         !.ev.untriggered = { d.explosiveBarrels[i].id : i \in
                                { k \in 1..Len(d.explosiveBarrels) :
                                    ~triggered(d.explosiveBarrels[k], d.player, d.monsters) } }]

\* ---------------------------------------------------------------------
\* Player bullets (lines 652-750)
\* ---------------------------------------------------------------------
\* the first element overlapped, dying or not
firstHitAny(c, list, skipDying) ==
  LET hits == { i \in 1..Len(list) : checkCollision(c, list[i]) }
  IN  IF hits = {} THEN 0 ELSE CHOOSE i \in hits : \A j \in hits : i <= j

\* the index of the first element of list that the collider c overlaps
\* (dying elements are passed over when skipDying), 0 if none
firstHit(c, list, skipDying) ==
  LET hits == { i \in 1..Len(list) : (~skipDying \/ list[i].diesAt = 0)
                                        /\ checkCollision(c, list[i]) }
  IN  IF hits = {} THEN 0 ELSE CHOOSE i \in hits : \A j \in hits : i <= j

\* lines 671-678: the obstacle hit takes the display slot if the slot is
\* empty, holds this obstacle already or is no longer locked
targetObstacle(targetedObstacle, hitObstacle, t) ==
  IF targetedObstacle.id # 0 /\ targetedObstacle.id = hitObstacle.id
  THEN Target(hitObstacle, t, targetedObstacle.lockedUntil)
  ELSE IF targetedObstacle.id = 0 \/ t >= targetedObstacle.lockedUntil
       THEN Target(hitObstacle, t, t + 1000)
       ELSE targetedObstacle

\* lines 712-738: the monster hit refreshes its own slot, else takes the
\* first empty slot, else the unlocked slot hit longest ago, else none
targetMonster(targetedMonsters, hitMonster, t) ==
  LET slots == 1..Len(targetedMonsters)
      existing == { j \in slots : targetedMonsters[j].id # 0 /\ targetedMonsters[j].id = hitMonster.id }
      empty == { j \in slots : targetedMonsters[j].id = 0 }
      unlocked == { j \in slots : targetedMonsters[j].id # 0 /\ t >= targetedMonsters[j].lockedUntil }
      first(S) == CHOOSE j \in S : \A k \in S : j <= k
      oldest == { j \in unlocked : \A k \in unlocked :
                    \/ targetedMonsters[j].lastHitTime < targetedMonsters[k].lastHitTime
                    \/ targetedMonsters[j].lastHitTime = targetedMonsters[k].lastHitTime /\ j <= k }
  IN  IF existing # {}
      THEN [targetedMonsters EXCEPT ![first(existing)] = Target(hitMonster, t, @.lockedUntil)]
      ELSE IF empty # {}
           THEN [targetedMonsters EXCEPT ![first(empty)] = Target(hitMonster, t, t + 1000)]
           ELSE IF oldest # {}
                THEN [targetedMonsters EXCEPT ![first(oldest)] = Target(hitMonster, t, t + 1000)]
                ELSE targetedMonsters

\* line 659: the zone a bullet with an onImpact descriptor leaves where it is
zoneOf(bullet, t) ==
  [ type |-> bullet.onImpact[1].type, position |-> bullet.position,
    size |-> bullet.onImpact[1].size, damage |-> bullet.onImpact[1].damage,
    duration |-> bullet.onImpact[1].duration, createdAt |-> t ]

\* a bullet that stays in flight whatever it hit
alwaysInFlight(piercingLeft, hitSomething) == TRUE

\* line 745: the bullet goes into newBullets
staysInFlight(piercingLeft, hitSomething) == piercingLeft > 0 /\ ~hitSomething

\* One bullet b of the frame: it moves and wraps; past its lifespan it is
\* dropped; else it damages the first obstacle it overlaps, then (with
\* piercing left) the first barrel, then the first living monster; it stays
\* in flight only if it hit nothing.  in.isCrit is the critical-hit roll.
bulletStep(d, b, t, in) ==
  LET onMonsters(d2, bullet, p2, stop2, hitBefore) ==
        LET im == IF stop2 THEN 0 ELSE firstHit(bullet, d2.monsters, TRUE)
            w  == d.equippedWeapons[d.player.equippedWeaponIndex]
            critDamageMultiplier == IF in.isCrit THEN (IF w.critDamage = 0 THEN 150 ELSE w.critDamage) ELSE 100
            finalDamage == (bullet.damage * critDamageMultiplier) \div 100
            p3 == IF im # 0 THEN p2 - 1 ELSE p2
            hitSomething == hitBefore \/ im # 0
            shot == [ createdAt |-> bullet.createdAt, piercingBefore |-> bullet.piercingLeft,
                      piercingLeft |-> p3, hitSomething |-> hitSomething,
                      monster |-> IF im # 0 THEN d2.monsters[im].id ELSE 0,
                      invincibleUntil |-> IF im # 0 THEN d2.monsters[im].invincibleUntil ELSE 0,
                      finalDamage |-> IF im # 0 THEN finalDamage ELSE 0 ]
            d3 == IF im # 0
                  THEN [d2 EXCEPT !.monsters[im].health = @ - finalDamage,
                                  !.targetedMonsters =
                                     targetMonster(@, [d2.monsters[im] EXCEPT !.health = @ - finalDamage], t),
                                  !.ev.shots = Append(@, shot)]
                  ELSE [d2 EXCEPT !.ev.shots = Append(@, shot)]
        IN  IF ~stop2 /\ staysInFlight(p3, hitSomething)
            THEN [d3 EXCEPT !.newBullets = Append(@, [bullet EXCEPT !.piercingLeft = p3])]
            ELSE d3
      onBarrels(d1, bullet, io, p1) ==
        LET stop1 == io # 0 /\ p1 <= 0
            ib == IF stop1 THEN 0 ELSE firstHit(bullet, d1.explosiveBarrels, FALSE)
            p2 == IF ib # 0 THEN p1 - 1 ELSE p1
            stop2 == stop1 \/ ((io # 0 \/ ib # 0) /\ p2 <= 0)
        IN  onMonsters(IF ib # 0
                       THEN [d1 EXCEPT !.explosiveBarrels[ib].health = @ - bullet.damage,
                                       !.ev.barrelHits = Append(@, [id |-> d1.explosiveBarrels[ib].id,
                                                                    damage |-> bullet.damage])]
                       ELSE d1,
                       bullet, p2, stop2, io # 0 \/ ib # 0)
      onObstacles(bullet) ==
        LET io == firstHit(bullet, d.obstacles, FALSE)
        IN  onBarrels(IF io # 0
                      THEN [d EXCEPT !.obstacles[io].health = @ - bullet.damage,
                                     !.targetedObstacle =
                                        targetObstacle(@, [d.obstacles[io] EXCEPT !.health = @ - bullet.damage], t)]
                      ELSE d,
                      bullet, io,
                      IF io # 0 THEN bullet.piercingLeft - 1 ELSE bullet.piercingLeft)
      expired(bullet) ==
        IF bullet.onImpact # << >>
        THEN [d EXCEPT !.damageZones = Append(@, zoneOf(bullet, t))]
        ELSE d
      flight(bullet) == IF t - bullet.createdAt > BULLET_LIFESPAN THEN expired(bullet)
                        ELSE onObstacles(bullet)
      wrapped(moved) == [moved EXCEPT !.position = handleWrapAround(moved)]
  IN  flight(wrapped([b EXCEPT !.position = Vec(b.position.x + b.velocity.x, b.position.y + b.velocity.y)]))

RECURSIVE bulletsLoop(_, _, _, _)
bulletsLoop(d, bs, t, in) ==
  IF bs = << >> THEN d ELSE bulletsLoop(bulletStep(d, Head(bs), t, in), Tail(bs), t, in)

bulletsStep(d, t, in) ==
  LET kept(d1) == [f \in DOMAIN d |-> IF f = "bullets" THEN d1.newBullets ELSE d1[f]]
  IN  kept(bulletsLoop(d @@ [newBullets |-> << >>], d.bullets, t, in))

\* ---------------------------------------------------------------------
\* Player-monster collision (lines 960-983)
\* ---------------------------------------------------------------------
\* The player meets monster i of the draft: a dashing boss halves the
\* player's health, teleports the player and falls back to hesitation; any
\* other living monster deals contact damage and takes the thorns damage.
collide(d, i, allObstacles, t, in) ==
  LET monster == d.monsters[i] IN
  IF monster.diesAt # 0 \/ ~checkCollision(d.player, monster) THEN d
  ELSE IF monster.type = "boss" /\ monster.aiState.type = "dashing"
       THEN LET health1 == (d.player.health \div (2 * HS)) * HS
                safePos == findSafeTeleportLocation(d.player.size, allObstacles, in.teleport)
            IN  [d EXCEPT !.player.health = health1,
                          !.player.position = safePos,
                          !.monsters[i].aiState.type = "hesitate",
                          !.monsters[i].aiState.lastActionTime = t,
                          !.ev.dash = Append(@, [boss |-> monster.id, healthBefore |-> d.player.health,
                                                 healthAfter |-> health1, position |-> safePos,
                                                 blocked |-> collidesAny([position |-> safePos,
                                                                          size |-> d.player.size],
                                                                         allObstacles),
                                                 overlaps |-> collidesAny([position |-> safePos,
                                                                           size |-> d.player.size],
                                                                          allObstaclesOf(d))])]
       ELSE LET d1 == takeDamage(d, t, (10 * d.difficultyModifiers.monsterDamage) \div 100)
            IN  IF d1.player.thornsDamage > 0
                THEN [d1 EXCEPT !.monsters[i].health = @ - d1.player.thornsDamage]
                ELSE d1

RECURSIVE collideFrom(_, _, _, _, _)
collideFrom(d, i, allObstacles, t, in) ==
  IF i > Len(d.monsters) THEN d
  ELSE collideFrom(collide(d, i, allObstacles, t, in), i + 1, allObstacles, t, in)

\* lines 986-998: an ally that is not invincible is hurt by the first
\* living monster it touches
allyCollision(ally, monsters, difficultyModifiers, t) ==
  LET touching == { i \in 1..Len(monsters) :
                      monsters[i].diesAt = 0 /\ checkCollision(ally, monsters[i]) }
  IN  IF t < ally.invincibleUntil \/ touching = {} THEN ally
      ELSE [ally EXCEPT !.health = @ - ((2 * 10 * difficultyModifiers.monsterDamage + 100) \div 200) * HS,
                        !.invincibleUntil = t + INVINCIBILITY_DURATION]

\* allObstacles is still the array built at line 328
collisionStep(d, allObstacles, t, in) ==
  LET hurt(d1) == [d1 EXCEPT !.allies = [i \in 1..Len(@) |->
                                          allyCollision(@[i], d1.monsters, d1.difficultyModifiers, t)]]
  IN  hurt(collideFrom(d, 1, allObstacles, t, in))

\* ---------------------------------------------------------------------
\* Clean-up, rewards, pickups (lines 1001-1136)
\* ---------------------------------------------------------------------
\* a monster that only lingers once its health is far below zero
lingering(m) == m.health <= -(100 * HS) /\ m.diesAt = 0

\* line 1004: the monster has no health left and is not dying yet
isNewlyKilled(m) == m.health <= 0 /\ m.diesAt = 0

\* lines 1002-1027: a living monster without health starts dying; the
\* obstacles without health go
cleanupStep(d, t) ==
  [d EXCEPT !.newlyKilledMonsters = SelectSeq(d.monsters, isNewlyKilled),
            !.hitObstacles = d.obstacles,
            !.allObstacles = SelectSeq(d.obstacles, LAMBDA o : o.health > 0) \o d.explosiveBarrels,
            !.monsters = [i \in 1..Len(@) |-> IF isNewlyKilled(@[i]) THEN [@[i] EXCEPT !.diesAt = t] ELSE @[i]],
            !.obstacles = SelectSeq(@, LAMBDA o : o.health > 0)]

\* the side of a weapon drop
WEAPON_DROP_SIZE == 32

\* ---------------------------------------------------------------------
\* generateUpgradedWeapon (services/geminiService.ts 33-104)
\* ---------------------------------------------------------------------
\* Math.round(n / d) for d > 0
Round(n, d) == (2 * n + d) \div (2 * d)

\* One stat point spent as roll says: roll.stat is the stat the first draw
\* of Math.random() selects and roll.value what the second one yields (a
\* factor in thousandths, or the number of rounds added to the clip).
\* reloadTime is kept in whole milliseconds.
applyStatPoint(newStats, wave, roll) ==
  CASE roll.stat = "damage" ->
         [newStats EXCEPT !.damage = Round(@ * roll.value * (50 + wave), 1000 * 50)]
    [] roll.stat = "fireRate" ->
         [newStats EXCEPT !.fireRate = Round(@ * roll.value, 1000)]
    [] roll.stat = "clipSize" ->
         [newStats EXCEPT !.clipSize = (IF @ = 0 THEN 10 ELSE @) + roll.value]
    [] roll.stat = "reloadTime" ->
         [newStats EXCEPT !.reloadTime = Max(500, ((IF @ = 0 THEN 2000 ELSE @) * roll.value) \div 1000)]
    [] roll.stat = "critChance" ->
         [newStats EXCEPT !.critChance = Min(75, (IF @ = 0 THEN 5 ELSE @) + 1)]
    [] roll.stat = "critDamage" ->
         [newStats EXCEPT !.critDamage = (IF @ = 0 THEN 150 ELSE @) + 5]
    [] roll.stat = "piercing" /\ wave > 5 ->
         [newStats EXCEPT !.piercing = (IF @ = 0 THEN 1 ELSE @) + 1]
    [] OTHER -> newStats

RECURSIVE applyStatPoints(_, _, _)
applyStatPoints(newStats, wave, rolls) ==
  IF rolls = << >> THEN newStats
  ELSE applyStatPoints(applyStatPoint(newStats, wave, Head(rolls)), wave, Tail(rolls))

\* the number of stat points of a wave
statPoints(wave) == 5 + wave \div 3

\* lines 77-83: the quality score of a weapon
qualityOf(w) ==
  ( w.damage * w.fireRate * (IF w.bulletCount = 0 THEN 1 ELSE w.bulletCount)
      * (100 * 100 + w.critChance * w.critDamage)
    + ((IF w.piercing = 0 THEN 1 ELSE w.piercing) * 20
       + (IF w.bulletSpeed = 0 THEN 5 ELSE w.bulletSpeed) * 5) * (100 * 100 * 100)
    - (IF w.reloadTime = 0 THEN 2000 ELSE w.reloadTime) * (100 * 100) )
  \div (100 * 100 * 100)

\* The weapon generated from currentWeapon in a wave when the stat points
\* are spent as the sequence rolls says (Len(rolls) = statPoints(wave)).
generateUpgradedWeapon(currentWeapon, wave, rolls) ==
  LET rolled == applyStatPoints(currentWeapon, wave, rolls)
      safe == [rolled EXCEPT
                 !.damage = Max(@, Round(currentWeapon.damage * 11, 10)),
                 !.fireRate = Max(@, Round(currentWeapon.fireRate * 101, 100))]
      quality == Max(qualityOf(safe), currentWeapon.quality + 10)
      durability == Max(100, (quality * 25) \div 10)
  IN  [safe EXCEPT !.quality = quality,
                   !.ammoInClip = safe.clipSize,
                   !.durability = durability]

\* lines 1065-1068: the weapon an elite or the boss leaves, generated from
\* the weapon of the selected slot (INITIAL_WEAPON if the slot is empty)
\* with every stat point rolling in.roll
weaponDrop(d, m, in) ==
  LET i == d.player.equippedWeaponIndex
      weaponToUpgrade == IF d.equippedWeapons[i] # NoWeapon THEN d.equippedWeapons[i]
                         ELSE INITIAL_WEAPON
  IN  [ position |-> m.position, size |-> Square(WEAPON_DROP_SIZE),
        weapon |-> generateUpgradedWeapon(weaponToUpgrade, d.wave,
                                          [k \in 1..statPoints(d.wave) |-> in.roll]) ]

\* lines 1036-1040 for one killed monster: the score, a gem at the monster's
\* position (the same position object) and the packs the rolls grant
reward(d, m, in) ==
  [d EXCEPT !.score = @ + (IF m.level = 0 THEN 1 ELSE m.level) * 10,
            !.experienceGems = Append(@, Gem(m.position, m.xpValue, m.id)),
            !.healthPacks = IF in.dropHealth
                            THEN Append(@, [Pack(m.position, HEALTH_PACK_SIZE) EXCEPT !.owner = m.id])
                            ELSE @,
            !.shieldPacks = IF in.dropShield
                            THEN Append(@, [Pack(m.position, SHIELD_PACK_SIZE) EXCEPT !.owner = m.id])
                            ELSE @,
            !.weaponDrops = IF m.type \in {"elite", "boss"}
                            THEN Append(@, weaponDrop(d, m, in))
                            ELSE @]

RECURSIVE rewardAll(_, _, _)
rewardAll(d, ms, in) ==
  IF ms = << >> THEN d ELSE rewardAll(reward(d, Head(ms), in), Tail(ms), in)

rewardStep(d, in) ==
  [rewardAll(d, d.newlyKilledMonsters, in) EXCEPT
     !.ev.kills = [i \in 1..Len(d.newlyKilledMonsters) |-> d.newlyKilledMonsters[i].id]]

\* the position a division by a zero distance leaves: both coordinates NaN,
\* that no comparison holds of; a point that overlaps nothing stands for it
NaNPos == Vec(-Px(WORLD_WIDTH), -Px(WORLD_HEIGHT))

\* lines 1084-1091: a gem inside the magnet radius moves ten pixels towards
\* the player (on the row: along x)
pulled(gem, player) ==
  IF gem.position = NaNPos THEN gem
  ELSE IF distSq(gem, player) < player.gemMagnetRadius * player.gemMagnetRadius
       THEN IF distSq(gem, player) = 0 THEN [gem EXCEPT !.position = NaNPos]
            ELSE [gem EXCEPT !.position =
                    Vec(gem.position.x + Sign(player.position.x - gem.position.x) * Px(10),
                        gem.position.y + Sign(player.position.y - gem.position.y) * Px(10))]
       ELSE gem

\* the entities of list that share the position object of gem follow it
follow(list, gem) ==
  [i \in 1..Len(list) |->
     IF gem.owner # 0 /\ list[i].owner = gem.owner
     THEN [list[i] EXCEPT !.position = gem.position] ELSE list[i]]

\* lines 1083-1097 for the gems from the k-th on
RECURSIVE gemsFrom(_, _)
gemsFrom(d, k) ==
  IF k > Len(d.pulledGems) THEN d
  ELSE LET gem == pulled(d.pulledGems[k], d.player)
           d1  == [d EXCEPT !.pulledGems[k] = gem,
                            !.healthPacks = follow(@, gem),
                            !.shieldPacks = follow(@, gem)]
       IN  IF gem.position # NaNPos /\ checkCollision(d1.player, gem)
           THEN gemsFrom([d1 EXCEPT !.player.xp = @ + gem.xpValue * d.difficultyModifiers.xpGain,
                                    !.ev.credited = Append(@, gem.owner),
                                    !.pulledGems[k].xpValue = -1], k + 1)
           ELSE gemsFrom(d1, k + 1)

\* lines 1098-1113: the packs the player touches heal by 25 up to the maximum
RECURSIVE healthPacksFrom(_, _)
healthPacksFrom(d, k) ==
  IF k > Len(d.healthPacks) THEN d
  ELSE IF checkCollision(d.player, d.healthPacks[k])
       THEN healthPacksFrom([d EXCEPT !.player.health = Min(d.player.maxHealth, @ + 25 * HS),
                                      !.healthPacks[k].owner = -1], k + 1)
       ELSE healthPacksFrom(d, k + 1)

RECURSIVE shieldPacksFrom(_, _)
shieldPacksFrom(d, k) ==
  IF k > Len(d.shieldPacks) THEN d
  ELSE IF checkCollision(d.player, d.shieldPacks[k])
       THEN shieldPacksFrom([d EXCEPT !.player.shield = Min(d.player.maxShield, @ + 25 * HS),
                                      !.shieldPacks[k].owner = -1], k + 1)
       ELSE shieldPacksFrom(d, k + 1)

\* lines 1124-1136: a weapon drop the player touches goes into the first
\* empty slot, or replaces the weapon of the selected slot
RECURSIVE weaponDropsFrom(_, _)
weaponDropsFrom(d, k) ==
  IF k > Len(d.weaponDrops) THEN d
  ELSE IF checkCollision(d.player, d.weaponDrops[k])
       THEN LET empty == { i \in 1..Len(d.equippedWeapons) : d.equippedWeapons[i] = NoWeapon }
                slot == IF empty # {} THEN CHOOSE i \in empty : \A j \in empty : i <= j
                        ELSE d.player.equippedWeaponIndex
            IN  weaponDropsFrom([d EXCEPT !.equippedWeapons[slot] = d.weaponDrops[k].weapon,
                                          !.weaponDrops[k].weapon = NoWeapon], k + 1)
       ELSE weaponDropsFrom(d, k + 1)

\* lines 1083-1136; a collected gem is marked by xpValue -1 and a collected
\* pack by owner -1 before the filters drop them
pickupStep(d) ==
  LET d1 == gemsFrom([d EXCEPT !.pulledGems = d.experienceGems], 1)
      d2 == weaponDropsFrom(shieldPacksFrom(healthPacksFrom(d1, 1), 1), 1)
  IN  [d2 EXCEPT !.ev.collected = d1.player.xp,
                 !.weaponDrops = SelectSeq(@, LAMBDA k : k.weapon # NoWeapon),
                 !.experienceGems = SelectSeq(d1.pulledGems, LAMBDA g : g.xpValue # -1),
                 !.healthPacks = SelectSeq(@, LAMBDA k : k.owner # -1),
                 !.shieldPacks = SelectSeq(@, LAMBDA k : k.owner # -1)]

\* lines 1114-1123: a chest the player touches is opened and gives the
\* buff PREDEFINED_BUFFS[in.buff] (the chests concern the buffs only, the
\* other pickups do not read them)
chestsStep(d, t, in) ==
  LET opened == { k \in 1..Len(d.treasureChests) : checkCollision(d.player, d.treasureChests[k]) }
      RECURSIVE given(_, _)
      given(buffs, k) ==
        IF k > Len(d.treasureChests) THEN buffs
        ELSE given(IF k \in opened THEN Append(buffs, Buff(in.buff, t)) ELSE buffs, k + 1)
  IN  [d EXCEPT !.player.buffs = given(@, 1),
                !.treasureChests = [ j \in 1..(Len(d.treasureChests) - Cardinality(opened)) |->
                                       d.treasureChests[
                                         CHOOSE k \in 1..Len(d.treasureChests) :
                                           /\ k \notin opened
                                           /\ Cardinality({ l \in 1..k : l \notin opened }) = j ] ]]

\* ---------------------------------------------------------------------
\* Level up (lines 1138-1145)
\* ---------------------------------------------------------------------
\* the element of list with the id of e, e itself if there is none
sameId(list, e) ==
  LET at == { i \in 1..Len(list) : list[i].id = e.id }
  IN  IF at = {} THEN e ELSE list[CHOOSE i \in at : TRUE]

\* The state line 1144 returns: the previous state with the frame's player.
\* The frame's other drafts are dropped, but what the frame wrote into
\* objects it shares with the previous state stays: the aiState of the
\* monsters that were alive, the health of the obstacles and barrels that
\* bullets hit, the positions of the gems pulled (and of the packs that share
\* them) and the fields written on the state itself.
\* every level the experience pays for, taken at once
RECURSIVE levelUpAll(_)
levelUpAll(p) ==
  LET q == [p EXCEPT !.level = @ + 1,
                     !.xp = @ - p.xpToNextLevel * 100,
                     !.xpToNextLevel = (@ * 15) \div 10]
  IN  IF q.xp >= q.xpToNextLevel * 100 THEN levelUpAll(q) ELSE q

\* lines 1140-1142: one level, paid with the old threshold; the new
\* threshold is Math.floor(1.5 * old)
levelUp(p) ==
  [p EXCEPT !.level = @ + 1,
            !.xp = @ - p.xpToNextLevel * 100,
            !.xpToNextLevel = (@ * 15) \div 10]

\* line 1143: the first three of the shuffled copy of PREDEFINED_UPGRADES
drawChoices(shuffled) == SubSeq(shuffled, 1, 3)

levelUpReturn(prev, d, in) ==
  LET p == d.player
      gemOf(pack) == { k \in 1..Len(prev.experienceGems) :
                         pack.owner # 0 /\ prev.experienceGems[k].owner = pack.owner }
      dragged(pack) == IF gemOf(pack) = {} THEN pack
                       ELSE [pack EXCEPT !.position = d.pulledGems[CHOOSE k \in gemOf(pack) : TRUE].position]
  IN
  [prev EXCEPT
     !.player = levelUp(p),
     !.isLevelingUp = TRUE,
     !.levelUpChoices = drawChoices(in.shuffled),
     !.isGameOver = d.isGameOver,
     !.leaderboard = d.leaderboard,
     !.lastShotTime = d.lastShotTime,
     !.pistol = d.pistol,
     !.nextId = d.nextId,
     !.monsters = [i \in 1..Len(prev.monsters) |->
                     IF prev.monsters[i].diesAt = 0
                     THEN [prev.monsters[i] EXCEPT !.aiState = sameId(d.monsters, prev.monsters[i]).aiState]
                     ELSE prev.monsters[i]],
     !.obstacles = [i \in 1..Len(prev.obstacles) |->
                      IF prev.obstacles[i].id \in d.copiedObstacles THEN prev.obstacles[i]
                      ELSE [prev.obstacles[i] EXCEPT
                              !.health = sameId(d.hitObstacles, prev.obstacles[i]).health]],
     !.explosiveBarrels = [i \in 1..Len(prev.explosiveBarrels) |->
                             [prev.explosiveBarrels[i] EXCEPT
                                !.health = sameId(d.explosiveBarrels, prev.explosiveBarrels[i]).health]],
     !.experienceGems = [i \in 1..Len(prev.experienceGems) |->
                           [prev.experienceGems[i] EXCEPT !.position = d.pulledGems[i].position]],
     !.healthPacks = [i \in 1..Len(prev.healthPacks) |-> dragged(prev.healthPacks[i])],
     !.shieldPacks = [i \in 1..Len(prev.shieldPacks) |-> dragged(prev.shieldPacks[i])]]

\* ---------------------------------------------------------------------
\* Wave progression and spawning (lines 1147-1306)
\* ---------------------------------------------------------------------
waveHealthBonus(wave) == IF wave > 1 THEN 200 + (wave - 2) * 150 ELSE 0

\* the number of monsters of a list that are not dying
living(monsters) == Len(SelectSeq(monsters, LAMBDA m : m.diesAt = 0))

\* utils.ts generateWorldObjects: of the candidate objects the random
\* stream proposes, those that keep clear of the padded avoid zones
generateWorldObjects(avoidZones, world) ==
  LET padded == [ i \in 1..Len(avoidZones) |->
                    [ position |-> Vec(avoidZones[i].position.x - Px(50), avoidZones[i].position.y - Px(50)),
                      size |-> [ width |-> avoidZones[i].size.width + Px(100),
                                 height |-> avoidZones[i].size.height + Px(100) ] ] ]
  IN  [ obstacles |-> SelectSeq(world.obstacles, LAMBDA o : ~collidesAny(o, padded)),
        barrels   |-> SelectSeq(world.barrels, LAMBDA b : ~collidesAny(b, padded)) ]

\* a wave that ends with any kill
anyKilledIn(newlyKilledMonsters) == newlyKilledMonsters # << >>

\* line 1185: newlyKilledMonsters.find(m => m.type === 'boss')
bossKilledIn(newlyKilledMonsters) ==
  \E i \in 1..Len(newlyKilledMonsters) : newlyKilledMonsters[i].type = "boss"

\* a wave that asks for no more kills than the one before
sameThreshold(monstersToKillForNextWave) == monstersToKillForNextWave

\* line 1189: Math.floor(monstersToKillForNextWave * 1.2 + 5)
nextThreshold(monstersToKillForNextWave) == (monstersToKillForNextWave * 12 + 50) \div 10

\* a field that counts as clear whoever is on it
alwaysClear(monsters) == TRUE

\* line 1156: no monster but a boss is left that is not dying
fieldClear(monsters) ==
  Len(SelectSeq(monsters, LAMBDA m : m.diesAt = 0 /\ m.type # "boss")) = 0

\* lines 1148-1244.  allObstacles is the array rebuilt at line 1027.
waveStep(d, t, in) ==
  LET allObstacles == allObstaclesOf(d)
      killed == d.monstersKilledThisWave
                  + Len(SelectSeq(d.newlyKilledMonsters, LAMBDA m : m.type # "boss"))
      reached == ~d.isWaitingForBossClear /\ ~d.isBossWave /\ killed >= d.monstersToKillForNextWave
      waiting1 == d.isWaitingForBossClear \/ reached
      clear == waiting1 /\ fieldClear(d.monsters)
      health == ((800 + d.wave * 150 + waveHealthBonus(d.wave) * 5) * HS
                   * d.difficultyModifiers.monsterHealth) \div 100
      boss == [Monster(d.nextId, "boss",
                       findSafeTeleportLocation(Square(BOSS_SIZE), allObstacles, in.bossSamples),
                       BOSS_SIZE, ((15 + d.wave) * d.difficultyModifiers.monsterSpeed) \div 100,
                       health, 200, d.wave, 1) EXCEPT !.aiState = NoAI]
      d1 == [d EXCEPT !.monstersKilledThisWave = killed,
                      !.isWaitingForBossClear = waiting1 /\ ~clear,
                      !.isBossWave = @ \/ clear,
                      !.monsters = IF clear /\ d.currentWaveTheme # 0 THEN Append(@, boss) ELSE @,
                      !.nextId = IF clear /\ d.currentWaveTheme # 0 THEN @ + 1 ELSE @,
                      !.ev.reached = reached]
      bossKilled == bossKilledIn(d.newlyKilledMonsters)
      avoidZones == << [position |-> d.player.position, size |-> Square(200)] >>
                      \o d.healthPacks \o d.shieldPacks
      gen == generateWorldObjects(avoidZones, in.world)
  IN  IF d1.isBossWave /\ bossKilled
      THEN [d1 EXCEPT !.isBossWave = FALSE,
                      !.wave = @ + 1,
                      !.monstersKilledThisWave = 0,
                      !.monstersToKillForNextWave = nextThreshold(@),
                      !.currentWaveTheme = d.wave + 1,
                      !.obstacles = renumber(gen.obstacles, d1.nextId - 1),
                      !.explosiveBarrels = renumber(gen.barrels, d1.nextId - 1 + Len(gen.obstacles)),
                      !.nextId = @ + Len(gen.obstacles) + Len(gen.barrels),
                      !.ev.bossKilled = TRUE]
      ELSE d1

\* getSizeForType for the types the model spawns
getSizeForType(type) ==
  CASE type = "boss" -> BOSS_SIZE
    [] type = "minion" -> MINION_SIZE
    [] type = "healer" -> HEALER_SIZE
    [] type = "wisp" -> WISP_SIZE
    [] OTHER -> MONSTER_SIZE

\* The try of lines 1279-1292 that ends the loop: the first of at most 50
\* samples farther than 300 pixels from the player, else the last one drawn.
spawnTries == 50

RECURSIVE spawnTry(_, _, _)
spawnTry(samples, player, k) ==
  LET pos == sampleAt(samples, k)
      dx == pos.x - player.position.x
      dy == pos.y - player.position.y
  IN  IF dx * dx + dy * dy > Px(300) * Px(300) \/ k >= spawnTries \/ k >= Len(samples)
      THEN pos
      ELSE spawnTry(samples, player, k + 1)

\* lines 1294-1305: the monster of a type the director creates at pos in a
\* wave; speed is the roll 1.2 + Math.random() * 0.5 in tenths of a pixel
spawned(id, type, pos, speed, wave, difficultyModifiers) ==
  Monster(id, type, pos, getSizeForType(type),
          (speed * difficultyModifiers.monsterSpeed) \div 100,
          (((IF type = "elite" THEN 200 ELSE 50) + wave * 15 + waveHealthBonus(wave))
             * HS * difficultyModifiers.monsterHealth) \div 100,
          IF type = "elite" THEN 50 ELSE 10, wave, 0)

\* line 1246
monsterSpawnInterval(wave) == Max(200, 3000 - wave * 100)

\* line 1247
maxMonsters(wave) == 15 + wave * 3

\* a director that does not wait for the boss
spawnDueAnyway(d, t) ==
  /\ t - d.lastMonsterSpawnTime > monsterSpawnInterval(d.wave)
  /\ living(d.monsters) < maxMonsters(d.wave)

\* line 1248: a regular monster is due
spawnDue(d, t) ==
  /\ ~d.isWaitingForBossClear
  /\ ~d.isBossWave
  /\ t - d.lastMonsterSpawnTime > monsterSpawnInterval(d.wave)
  /\ living(d.monsters) < maxMonsters(d.wave)

\* lines 1246-1306: the director spawns one monster when no boss is due or
\* present, the interval has passed and the living are below the cap
spawnStep(d, t, in) ==
      IF spawnDue(d, t)
      THEN LET m == spawned(d.nextId, in.spawnType, spawnTry(in.spawnSamples, d.player, 1),
                            in.spawnSpeed, d.wave, d.difficultyModifiers)
           IN  [d EXCEPT !.lastMonsterSpawnTime = t,
                         !.monsters = Append(@, m),
                         !.nextId = @ + 1,
                         !.ev.spawned = m.id]
      ELSE d

\* lines 1312-1324: the ally that arrives at pos at time t
Ally(id, pos, t) ==
  [ id |-> id, position |-> pos, size |-> Square(ALLY_SIZE),
    health |-> 100 * HS, maxHealth |-> 100 * HS,
    disappearsAt |-> t + 60 * 1000, spawnTime |-> t, invincibleUntil |-> 0 ]

\* lines 1309-1330: once nextAllySpawnTime has passed and fewer than
\* MAX_ALLIES allies are in the list, in.allyCount allies arrive around the
\* player and the next arrival is set in.allyDelay later
allySpawnStep(d, t, in) ==
  IF t > d.nextAllySpawnTime /\ Len(d.allies) < MAX_ALLIES
  THEN LET new == [ i \in 1..in.allyCount |->
                      Ally(d.nextId + i - 1,
                           Vec(d.player.position.x + in.allyOffsets[i].x,
                               d.player.position.y + in.allyOffsets[i].y), t) ]
       IN  [d EXCEPT !.allies = @ \o new,
                     !.nextId = @ + in.allyCount,
                     !.nextAllySpawnTime = t + in.allyDelay,
                     !.ev.allies = d.allies \o new]
  ELSE d

\* lines 1331-1335: a chest is due thirty seconds after the last one
chestSpawnStep(d, t, in) ==
  IF t - d.lastTreasureChestSpawnTime > 30 * 1000 /\ Len(d.treasureChests) < MAX_TREASURE_CHESTS
  THEN [d EXCEPT !.lastTreasureChestSpawnTime = t,
                 !.treasureChests =
                    Append(@, [ position |-> findSafeTeleportLocation(Square(TREASURE_CHEST_SIZE),
                                                                      d.allObstacles, in.chestSamples),
                                size |-> Square(TREASURE_CHEST_SIZE) ])]
  ELSE d

\* the allies of the frame that goes by without sending one away
stayingAll(allies, t) == allies

\* line 1362: the allies whose time is not over
staying(allies, t) == SelectSeq(allies, LAMBDA a : t <= a.disappearsAt)

\* lines 1355-1370: the monsters whose death animation is over are
\* removed, and so are the allies whose time is over or who have no health
finalCleanup(d, t) ==
  [d EXCEPT !.monsters = SelectSeq(@, LAMBDA m : m.diesAt = 0 \/ t - m.diesAt < DEATH_ANIMATION_DURATION),
            !.allies = SelectSeq(staying(@, t), LAMBDA a : a.health > 0)]

\* ---------------------------------------------------------------------
\* Target display (lines 1372-1397)
\* ---------------------------------------------------------------------
\* a slot is emptied once its last hit is older than the lock duration or
\* its entity is no longer in list, and refreshed from list otherwise
refreshTarget(target, list, t) ==
  LET found == { i \in 1..Len(list) : list[i].id = target.id }
  IN  IF target.id = 0 THEN target
      ELSE IF t - target.lastHitTime > TARGET_INFO_LOCK_DURATION THEN NoTarget
      ELSE IF found = {} THEN NoTarget
      ELSE Target(list[CHOOSE i \in found : \A j \in found : i <= j],
                  target.lastHitTime, target.lockedUntil)

\* a clean-up that writes the health the display holds back to the monsters
cleanupTargetsAndMonsters(d, t) ==
  LET held(m) == { j \in 1..Len(d.targetedMonsters) : d.targetedMonsters[j].id = m.id }
      written(m) == IF held(m) = {} THEN m
                    ELSE [m EXCEPT !.health = d.targetedMonsters[CHOOSE j \in held(m) : TRUE].health]
  IN  [d EXCEPT !.targetedMonsters = [j \in 1..Len(@) |-> refreshTarget(@[j], d.monsters, t)],
                !.targetedObstacle = refreshTarget(@, d.allObstacles, t),
                !.monsters = [i \in 1..Len(d.monsters) |-> written(d.monsters[i])]]

\* the slots are refreshed from the monsters and from the obstacles and
\* barrels of line 1027
cleanupTargets(d, t) ==
  [d EXCEPT !.targetedMonsters = [j \in 1..Len(@) |-> refreshTarget(@[j], d.monsters, t)],
            !.targetedObstacle = refreshTarget(@, d.allObstacles, t)]

\* ---------------------------------------------------------------------
\* gameLoop (useGameLoop.ts 197-1409)
\* ---------------------------------------------------------------------
\* the state a draft holds
stateOf(prev, d) == [f \in DOMAIN prev |-> d[f]]

\* a gate that lets the frame run behind the level-up screen
gatedUnlessLevelingUp(prev) == prev.isPaused \/ prev.isGameOver

\* line 199: the frame is skipped
gated(prev) == prev.isPaused \/ prev.isLevelingUp \/ prev.isGameOver

\* One frame at time t with the inputs and random draws in: the state the
\* updater returns and the record of what the frame did.
frame(prev, t, in) ==
  IF gated(prev)
  THEN [state |-> prev, ev |-> [NoEvents EXCEPT !.gated = TRUE]]
  ELSE
    LET directed(d6) == [state |-> stateOf(prev, d6), ev |-> [d6.ev EXCEPT !.directorRan = TRUE]]
        arrivals(d7) == chestSpawnStep(allySpawnStep(spawnStep(d7, t, in), t, in), t, in)
        levelled(d5) ==
          IF d5.player.xp >= d5.player.xpToNextLevel * 100
          THEN [state |-> levelUpReturn(prev, d5, in),
                ev |-> [d5.ev EXCEPT !.offered = drawChoices(in.shuffled)]]
          ELSE directed(cleanupTargets(finalCleanup(arrivals(waveStep(d5, t, in)), t), t))
        updated(d0) ==
          LET allObstacles == allObstaclesOf(d0)
              d1 == shootStep(movePlayer(reloadStep(buffsStep(d0, t), t), in), t, in)
              d2 == stuckStep(allyStep(aiStep(d1, t, in)), allObstacles, t, in)
              d3 == bulletsStep(processExplosiveBarrels(d2, t), t, in)
              d4 == cleanupStep(collisionStep(d3, allObstacles, t, in), t)
          IN  levelled(chestsStep(pickupStep(rewardStep(d4, in)), t, in))
    IN  updated(draftOf([prev EXCEPT !.explosions =
                           SelectSeq(@, LAMBDA e : t - e.createdAt < EXPLOSION_DURATION),
                                     !.damageZones =
                           SelectSeq(@, LAMBDA z : t - z.createdAt < z.duration)]))

gameLoop(prev, t, in) == frame(prev, t, in).state

\* ---------------------------------------------------------------------
\* The state machine
\* ---------------------------------------------------------------------
\* gs is the GameState the component holds, now the clock Date.now() as the
\* last frame read it, ev the record of what the last frame did and drop
\* the weapon generateUpgradedWeapon returned last (NoWeapon if none).
VARIABLES gs, now, ev, drop

vars == << gs, now, ev, drop >>

\* the time between two frames
FrameTime == 100 * 5

\* the number of frames a behaviour runs
MaxFrames == 5

\* the inputs and random draws of a frame in which nothing is pressed and
\* every roll fails.  shuffled is the order in which the sort of line 1143
\* leaves the copy of PREDEFINED_UPGRADES
NoInput ==
  [ dt |-> FrameTime, moveVector |-> Vec(0, 0), shooting |-> "none", isCrit |-> FALSE,
    randomAction |-> 99, minionOffsets |-> << 0, 0, 0, 0 >>,
    teleport |-> << Vec(Px(100), Px(100)) >>, wispTo |-> << Vec(Px(100), Px(100)) >>,
    dropHealth |-> FALSE, dropShield |-> FALSE,
    roll |-> [stat |-> "critChance", value |-> 0],
    allyCount |-> 1, allyDelay |-> 90 * 1000,
    buff |-> 1, chestSamples |-> << Vec(Px(2000), Px(200)) >>,
    allyOffsets |-> << Vec(-Px(50), 0), Vec(Px(50), 0), Vec(0, Px(50)) >>,
    shuffled |-> << "hp_up_1", "heal_1", "thorns_1", "pierce_up_1", "max_shield_1", "add_shield_1" >>,
    bossSamples |-> << Vec(Px(100), Px(100)) >>,
    world |-> [obstacles |-> << >>, barrels |-> << >>],
    spawnType |-> "normal", spawnSamples |-> << Vec(Px(100), Px(100)) >>, spawnSpeed |-> 12 ]

\* handleReload (lines 168-191) called at time t: a reload of the weapon
\* of the selected slot starts unless one is running, the slot is empty,
\* the clip is full or the reserve is empty
handleReload(prevState, t) ==
  LET player == prevState.player
      w == prevState.equippedWeapons[player.equippedWeaponIndex]
  IN  IF prevState.isGameOver \/ prevState.isPaused THEN prevState
      ELSE IF player.isReloading \/ w = NoWeapon \/ w.ammoInClip >= w.clipSize \/ w.durability <= 0
           THEN prevState
           ELSE [prevState EXCEPT
                   !.player.isReloading = TRUE,
                   !.player.reloadUntil = t + (IF w.reloadTime = 0 THEN 2000 ELSE w.reloadTime)]

\* handleWeaponSwitch (part_003 92-104): refused while a reload runs
handleWeaponSwitch(prev, index) ==
  IF prev.player.isReloading THEN prev
  ELSE [prev EXCEPT !.player.equippedWeaponIndex = index]

\* requestAnimationFrame runs the updater: one frame with inputs from In
TickIn(In) ==
  \E in \in In :
    /\ now + in.dt <= StartTime + MaxFrames * FrameTime
    /\ now' = now + in.dt
    /\ LET result(f) == gs' = f.state /\ ev' = f.ev
       IN  result(frame(gs, now', in))
    /\ UNCHANGED drop

\* the player picks one of the upgrades the level-up screen offers
LevelUpSelect ==
  /\ gs.isLevelingUp
  /\ \E i \in 1..Len(gs.levelUpChoices) : gs' = handleLevelUpSelect(gs, gs.levelUpChoices[i])
  /\ UNCHANGED << now, ev, drop >>

\* the pause key
PauseToggle ==
  /\ ~gs.isGameOver
  /\ gs' = handlePauseToggle(gs)
  /\ UNCHANGED << now, ev, drop >>

\* --- a session on the player's starting row: a barrel and an obstacle to
\* --- the right, a monster beyond the barrel, a monster to the left
rowY == playerInitialPos.y

MainWorld ==
  [ obstacles |-> << Obstacle(1, Vec(playerInitialPos.x + Px(100), rowY), Square(40), 300 * HS) >>,
    barrels   |-> << Barrel(2, Vec(playerInitialPos.x + Px(25), rowY), 10 * HS) >> ]

\* the sessions: difficulty, equipped cards, experience so far (with it, the
\* gem of the last kill still lies on the row), and whether earlier hits
\* have used up the shield and most of the health
MainSessions ==
  { [difficulty |-> "normal", cards |-> << >>, xp |-> 90, hurt |-> FALSE],
    [difficulty |-> "hard", cards |-> << "c_hp_1", "c_shield_1" >>, xp |-> 0, hurt |-> FALSE],
    [difficulty |-> "normal", cards |-> << "r_thorns_1", "c_speed_1" >>, xp |-> 90, hurt |-> FALSE],
    [difficulty |-> "hard", cards |-> << >>, xp |-> 0, hurt |-> TRUE] }

\* the monsters of wave 1 as the director spawned them, the first one a
\* pixel to the right of the barrel, the second one a pixel to the left of
\* the player
MainMonsters(g) ==
  << spawned(g.nextId, "normal", Vec(playerInitialPos.x + Px(56), rowY), 12, 1, g.difficultyModifiers),
     spawned(g.nextId + 1, "elite", Vec(playerInitialPos.x - Px(MONSTER_SIZE) - Px(1), rowY), 17, 1,
             g.difficultyModifiers) >>

InitMain ==
  /\ \E s \in MainSessions :
       LET g == getInitialState(s.difficulty, s.cards, MainWorld, << >>)
       IN  gs = [g EXCEPT !.monsters = MainMonsters(g),
                          !.nextId = @ + 2,
                          !.player.xp = s.xp * 100,
                          !.experienceGems =
                             IF s.xp > 0
                             THEN << Gem(Vec(playerInitialPos.x + Px(30), rowY), 10, 0) >>
                             ELSE << >>,
                          !.player.health = IF s.hurt THEN 10 * HS ELSE @,
                          !.player.shield = IF s.hurt THEN 0 ELSE @,
                          !.monstersKilledThisWave = s.xp \div 10,
                          !.score = s.xp,
                          !.lastMonsterSpawnTime = StartTime]
  /\ now = StartTime
  /\ ev = NoEvents
  /\ drop = NoWeapon

MainInputs ==
  { [NoInput EXCEPT !.shooting = sh, !.moveVector = Vec(mv, 0), !.dropHealth = dh, !.dropShield = dh] :
      sh \in {"none", "right"}, mv \in {0, 1}, dh \in {FALSE, TRUE} }

TickMain == TickIn(MainInputs)

NextMain == TickMain \/ LevelUpSelect \/ PauseToggle

SpecMain == InitMain /\ [][NextMain]_vars

\* --- the same sessions with handleLevelUpSelect called for any upgrade of
\* --- upgrades.ts, the cursed one with its multiplicative effects included:
\* --- the callback takes whatever UpgradeChoice it is given, the loop itself
\* --- offers standard upgrades only
AnyUpgradeSelect ==
  /\ gs.isLevelingUp
  /\ \E choice \in DOMAIN UPGRADES : gs' = handleLevelUpSelect(gs, choice)
  /\ UNCHANGED << now, ev, drop >>

NextUpgrade == TickMain \/ AnyUpgradeSelect \/ PauseToggle

SpecUpgrade == InitMain /\ [][NextUpgrade]_vars

\* --- the same sessions with a second call of handleLevelUpSelect: the
\* --- level-up screen calls onSelect on a click and when its countdown of
\* --- 10 s runs out (LevelUpScreen, the setInterval of its effect); both
\* --- updaters can be queued before the screen is unmounted.  ev.offered
\* --- holds the choices the screen was given until the second call is made
\* --- or the next frame runs.
LateSelect ==
  /\ ~gs.isLevelingUp /\ ev.offered # << >>
  /\ \E i \in 1..Len(ev.offered) : gs' = handleLevelUpSelect(gs, ev.offered[i])
  /\ ev' = [ev EXCEPT !.offered = << >>]
  /\ UNCHANGED << now, drop >>

NextSelect == TickMain \/ LevelUpSelect \/ LateSelect \/ PauseToggle

SpecSelect == InitMain /\ [][NextSelect]_vars

\* --- reloading: the weapon of slot 1 with the rounds left in its clip and
\* --- in reserve, the selected slot (slot 2 is empty: the pistol is in use)
\* --- with the rounds left in the pistol, the time a reload in progress
\* --- has left (0: none), a gem worth a level and a weapon drop a step to
\* --- the right of the player
ReloadSessions ==
  { [weapon |-> INITIAL_WEAPON, clip |-> 0, reserve |-> 999999, index |-> 1, pistol |-> 12,
     left |-> 0, others |-> NoWeapon, gem |-> FALSE, drop |-> FALSE],
    [weapon |-> INITIAL_WEAPON, clip |-> 5, reserve |-> 999999, index |-> 1, pistol |-> 12,
     left |-> 1000, others |-> Flamethrower, gem |-> FALSE, drop |-> TRUE],
    [weapon |-> INITIAL_WEAPON, clip |-> 0, reserve |-> 999999, index |-> 1, pistol |-> 12,
     left |-> 1000, others |-> NoWeapon, gem |-> TRUE, drop |-> FALSE],
    [weapon |-> Flamethrower, clip |-> 0, reserve |-> 40, index |-> 1, pistol |-> 12,
     left |-> 1000, others |-> NoWeapon, gem |-> FALSE, drop |-> FALSE],
    [weapon |-> Flamethrower, clip |-> 2, reserve |-> 300, index |-> 1, pistol |-> 12,
     left |-> 0, others |-> NoWeapon, gem |-> FALSE, drop |-> TRUE],
    [weapon |-> Flamethrower, clip |-> 1, reserve |-> 0, index |-> 1, pistol |-> 12,
     left |-> 0, others |-> NoWeapon, gem |-> FALSE, drop |-> FALSE],
    [weapon |-> INITIAL_WEAPON, clip |-> 20, reserve |-> 999999, index |-> 2, pistol |-> 1,
     left |-> 0, others |-> NoWeapon, gem |-> FALSE, drop |-> FALSE],
    [weapon |-> INITIAL_WEAPON, clip |-> 20, reserve |-> 999999, index |-> 2, pistol |-> 0,
     left |-> 0, others |-> NoWeapon, gem |-> FALSE, drop |-> FALSE] }

InitReload ==
  /\ \E s \in ReloadSessions :
       LET g == getInitialState("normal", << >>, [obstacles |-> << >>, barrels |-> << >>], << >>)
           lying == [g EXCEPT !.wave = 1]
       IN  gs = [g EXCEPT
                   !.equippedWeapons[1] = [s.weapon EXCEPT !.ammoInClip = s.clip,
                                                           !.durability = s.reserve],
                   !.equippedWeapons[2] = IF s.index = 2 THEN NoWeapon ELSE s.others,
                   !.equippedWeapons[3] = s.others,
                   !.pistol.ammoInClip = s.pistol,
                   !.player.equippedWeaponIndex = s.index,
                   !.player.isReloading = s.left > 0,
                   !.player.reloadUntil = IF s.left > 0 THEN StartTime + s.left ELSE 0,
                   !.experienceGems =
                      IF s.gem THEN << Gem(Vec(playerInitialPos.x + Px(40), rowY), 100, 0) >>
                      ELSE << >>,
                   !.weaponDrops =
                      IF s.drop
                      THEN << weaponDrop(lying, [position |-> Vec(playerInitialPos.x + Px(22), rowY),
                                                 type |-> "elite"], NoInput) >>
                      ELSE << >>,
                   !.lastShotTime = StartTime,
                   !.lastMonsterSpawnTime = StartTime]
  /\ now = StartTime
  /\ ev = NoEvents
  /\ drop = NoWeapon

\* the player walks to the right, shooting or not
ReloadInputs ==
  { [NoInput EXCEPT !.shooting = sh, !.moveVector = Vec(1, 0)] : sh \in {"none", "right"} }

TickReload == TickIn(ReloadInputs)

\* the R key: handleReload (lines 168-191) at the time of the last frame
Reload ==
  /\ gs' = handleReload(gs, now)
  /\ UNCHANGED << now, ev, drop >>

\* the keys 1, 2 and 3: handleWeaponSwitch
WeaponSwitch ==
  /\ \E index \in 1..Len(gs.equippedWeapons) : gs' = handleWeaponSwitch(gs, index)
  /\ UNCHANGED << now, ev, drop >>

NextReload == TickReload \/ Reload \/ WeaponSwitch \/ LevelUpSelect \/ PauseToggle

SpecReload == InitReload /\ [][NextReload]_vars

\* --- allies: a session that has just started, and sessions in which two
\* --- allies arrived forty seconds ago (the next arrival is due ninety
\* --- seconds after theirs), unhurt or nearly dead with a monster standing
\* --- on the first of them.  A frame comes half a minute or, after a
\* --- pause, two minutes after the frame before.
AllySpan == 30 * 1000

MaxSpans == 6

AllySessions ==
  { [allies |-> 0, health |-> 100, monster |-> FALSE],
    [allies |-> 2, health |-> 100, monster |-> FALSE],
    [allies |-> 2, health |-> 10, monster |-> TRUE],
    [allies |-> 3, health |-> 100, monster |-> FALSE] }

InitAlly ==
  /\ \E s \in AllySessions :
       LET g == getInitialState("normal", << >>, [obstacles |-> << >>, barrels |-> << >>], << >>)
           arrived == StartTime - 40 * 1000
           at(i) == Vec(g.player.position.x + NoInput.allyOffsets[i].x,
                        g.player.position.y + NoInput.allyOffsets[i].y)
       IN  gs = [g EXCEPT
                   !.allies = [ i \in 1..s.allies |->
                                  [Ally(g.nextId + i - 1, at(i), arrived) EXCEPT !.health = s.health * HS] ],
                   !.nextAllySpawnTime = IF s.allies > 0 THEN arrived + 90 * 1000 ELSE @,
                   !.monsters = IF s.monster
                                THEN << spawned(g.nextId + s.allies, "normal", at(1), 12, 1,
                                                g.difficultyModifiers) >>
                                ELSE << >>,
                   !.nextId = @ + s.allies + (IF s.monster THEN 1 ELSE 0),
                   !.lastMonsterSpawnTime = StartTime]
  /\ now = StartTime
  /\ ev = NoEvents
  /\ drop = NoWeapon

AllyInputs ==
  { [NoInput EXCEPT !.dt = spans * AllySpan, !.allyCount = count, !.allyDelay = delay * 1000] :
      spans \in {1, 4}, count \in 1..3, delay \in {90, 150} }

TickAlly ==
  \E in \in AllyInputs :
    /\ now + in.dt <= StartTime + MaxSpans * AllySpan
    /\ now' = now + in.dt
    /\ LET result(f) == gs' = f.state /\ ev' = f.ev
       IN  result(frame(gs, now', in))
    /\ UNCHANGED drop

NextAlly == TickAlly \/ PauseToggle

SpecAlly == InitAlly /\ [][NextAlly]_vars

\* --- timers: a session a minute old in which a buff, the lifetime of an
\* --- ally, a reload and the invincibility after a hit each have a second
\* --- left (or are not running), with a chest a step to the right of the
\* --- player and, in one session, a gem that completes the level
PauseSessions ==
  { [buff |-> 1, ally |-> TRUE, reload |-> TRUE, hit |-> TRUE, gem |-> FALSE],
    [buff |-> 2, ally |-> FALSE, reload |-> FALSE, hit |-> FALSE, gem |-> FALSE],
    [buff |-> 0, ally |-> TRUE, reload |-> FALSE, hit |-> FALSE, gem |-> FALSE],
    [buff |-> 0, ally |-> FALSE, reload |-> TRUE, hit |-> TRUE, gem |-> TRUE],
    [buff |-> 3, ally |-> TRUE, reload |-> TRUE, hit |-> FALSE, gem |-> TRUE] }

InitPause ==
  /\ \E s \in PauseSessions :
       LET g == getInitialState("normal", << >>, [obstacles |-> << >>, barrels |-> << >>], << >>)
           left == 1000
       IN  gs = [g EXCEPT
                   !.player.buffs =
                      IF s.buff > 0
                      THEN << Buff(s.buff, StartTime + left - PREDEFINED_BUFFS[s.buff].duration) >>
                      ELSE << >>,
                   !.allies =
                      IF s.ally
                      THEN << Ally(g.nextId, Vec(g.player.position.x - Px(50), g.player.position.y),
                                   StartTime + left - 60 * 1000) >>
                      ELSE << >>,
                   !.nextAllySpawnTime = StartTime + left + 30 * 1000,
                   !.nextId = @ + 1,
                   !.equippedWeapons[1].ammoInClip = IF s.reload THEN 5 ELSE @,
                   !.player.isReloading = s.reload,
                   !.player.reloadUntil = IF s.reload THEN StartTime + left ELSE 0,
                   !.player.health = IF s.hit THEN 90 * HS ELSE @,
                   !.player.shield = IF s.hit THEN 0 ELSE @,
                   !.player.invincibleUntil = IF s.hit THEN StartTime + left ELSE 0,
                   !.player.xp = IF s.gem THEN 90 * 100 ELSE 0,
                   !.experienceGems =
                      IF s.gem THEN << Gem(Vec(playerInitialPos.x + Px(40), rowY), 10, 0) >>
                      ELSE << >>,
                   !.treasureChests =
                      << [ position |-> Vec(playerInitialPos.x + Px(22), rowY),
                           size |-> Square(TREASURE_CHEST_SIZE) ] >>,
                   !.lastTreasureChestSpawnTime = StartTime - 1000,
                   !.lastShotTime = StartTime - 1000,
                   !.lastMonsterSpawnTime = StartTime]
  /\ now = StartTime
  /\ ev = NoEvents
  /\ drop = NoWeapon

PauseInputs ==
  { [NoInput EXCEPT !.moveVector = Vec(mv, 0), !.shooting = sh, !.buff = b] :
      mv \in {0, 1}, sh \in {"none", "right"}, b \in {2, 4} }

TickPause == TickIn(PauseInputs)

NextPause == TickPause \/ LevelUpSelect \/ PauseToggle

SpecPause == InitPause /\ [][NextPause]_vars

\* --- game over: the session of MainSessions on "hard" with a run's score
\* --- of 50, a player with 10 or 30 hit points left and no shield, and a
\* --- leaderboard that earlier runs have written
entry(score, wave) == [score |-> score, wave |-> wave]

\* the stored leaderboards: none, three runs, ten better runs, and ten runs
\* of which two have the score of this run and three a lower one
OverBoards ==
  { << >>,
    << entry(300, 4), entry(50, 2), entry(10, 1) >>,
    [i \in 1..10 |-> entry(1100 - 100 * i, 3)],
    << entry(500, 5), entry(400, 5), entry(300, 4), entry(200, 3), entry(100, 2),
       entry(50, 2), entry(50, 1), entry(40, 1), entry(30, 1), entry(20, 1) >> }

InitOver ==
  /\ \E board \in OverBoards, health \in {10, 30} :
       LET g == getInitialState("hard", << >>, MainWorld, board)
       IN  gs = [g EXCEPT !.monsters = MainMonsters(g),
                          !.nextId = @ + 2,
                          !.player.health = health * HS,
                          !.player.shield = 0,
                          !.monstersKilledThisWave = 5,
                          !.score = 50,
                          !.lastMonsterSpawnTime = StartTime]
  /\ now = StartTime
  /\ ev = NoEvents
  /\ drop = NoWeapon

TickOver == TickIn(MainInputs)

NextOver == TickOver \/ PauseToggle

SpecOver == InitOver /\ [][NextOver]_vars

\* --- hits on a player: the pure function _takeDamage on drawn inputs
\* the number of invincibility periods a behaviour of hits runs
MaxHits == 2

DamageShields == {0, 10, 50}

DamageHealths == {5, 40, 100}

DamageAmounts == {1, 10, 40, 100}

InitDamage ==
  /\ \E shield \in DamageShields, health \in DamageHealths :
       gs = [getInitialState("normal", << >>, [obstacles |-> << >>, barrels |-> << >>], << >>)
               EXCEPT !.player.shield = shield * HS, !.player.health = health * HS]
  /\ now = StartTime
  /\ ev = NoEvents
  /\ drop = NoWeapon

\* a source of damage calls _takeDamage(amount), dt after the last event
Hit ==
  \E amount \in DamageAmounts, dt \in {FrameTime, INVINCIBILITY_DURATION} :
    /\ now + dt <= StartTime + MaxHits * INVINCIBILITY_DURATION
    /\ now' = now + dt
    /\ LET d == takeDamage(draftOf(gs), now', amount)
       IN  gs' = stateOf(gs, d) /\ ev' = d.ev
    /\ UNCHANGED drop

NextDamage == Hit

SpecDamage == InitDamage /\ [][NextDamage]_vars

\* --- weapon generation: the pure function generateUpgradedWeapon
\* what a stat point can roll
RollOutcomes ==
  { [stat |-> "damage", value |-> 1050], [stat |-> "damage", value |-> 1149],
    [stat |-> "fireRate", value |-> 1060], [stat |-> "critChance", value |-> 0] }

\* the weapons an elite of wave 1 drops for the initial weapon when every
\* stat point rolls the same
FirstDrops ==
  { generateUpgradedWeapon(INITIAL_WEAPON, 1, [i \in 1..statPoints(1) |-> r]) : r \in RollOutcomes }

InitWeapon ==
  /\ \E W \in {INITIAL_WEAPON} \cup FirstDrops, wave \in {1, 3} :
       gs = [getInitialState("normal", << >>, [obstacles |-> << >>, barrels |-> << >>], << >>)
               EXCEPT !.equippedWeapons[1] = W, !.wave = wave]
  /\ now = StartTime
  /\ ev = NoEvents
  /\ drop = NoWeapon

\* lines 1065-1066 of the game loop: an elite or the boss dies and a weapon
\* is generated from the equipped one
GenerateWeapon ==
  /\ drop = NoWeapon
  /\ \E rolls \in [1..statPoints(gs.wave) -> RollOutcomes] :
       drop' = generateUpgradedWeapon(gs.equippedWeapons[gs.player.equippedWeaponIndex], gs.wave, rolls)
  /\ UNCHANGED << gs, now, ev >>

NextWeapon == GenerateWeapon

SpecWeapon == InitWeapon /\ [][NextWeapon]_vars

\* --- a boss wave on the row through the centre of the world: an
\* --- obstacle on the centre, the player to its right, the boss four
\* --- pixels farther right
rowB == Px(WORLD_HEIGHT) \div 2

BossWorld ==
  [ obstacles |-> << Obstacle(1, Vec(Px(1190), rowB), Square(40), 300 * HS) >>,
    barrels   |-> << >> ]

\* where the player stands when the behaviour starts
bossPlayerPos == Vec(Px(1400), rowB)

\* the boss fights: the boss's health and phase; its aiState ("fresh": just
\* back in hesitation, "rested": hesitating for two seconds, "dashing":
\* in a dash at where the player stood eight pixels to the left); whether a
\* healer stands behind the boss and a minion next to the player
BossSessions ==
  { [health |-> 700, phase |-> 1, ai |-> "fresh", healer |-> TRUE, minion |-> FALSE],
    [health |-> 760, phase |-> 1, ai |-> "fresh", healer |-> FALSE, minion |-> FALSE],
    [health |-> 385, phase |-> 2, ai |-> "rested", healer |-> FALSE, minion |-> FALSE],
    [health |-> 385, phase |-> 2, ai |-> "dashing", healer |-> FALSE, minion |-> FALSE],
    [health |-> 10, phase |-> 3, ai |-> "fresh", healer |-> FALSE, minion |-> TRUE] }

\* the boss of wave 1 as line 1171 creates it, later in its fight
BossOf(g, s) ==
  [ Monster(g.nextId, "boss", Vec(bossPlayerPos.x + Px(24), rowB), BOSS_SIZE,
            ((15 + g.wave) * g.difficultyModifiers.monsterSpeed) \div 100,
            ((800 + g.wave * 150) * HS * g.difficultyModifiers.monsterHealth) \div 100,
            200, g.wave, 1)
      EXCEPT !.health = s.health * HS,
             !.phase = s.phase,
             !.aiState = [ NoAI EXCEPT
                             !.type = IF s.ai = "dashing" THEN "dashing" ELSE "hesitate",
                             !.lastActionTime = IF s.ai = "rested" THEN StartTime - 2000 ELSE StartTime,
                             !.dashTarget = IF s.ai = "dashing"
                                            THEN << Vec(bossPlayerPos.x - Px(8), rowB) >> ELSE << >>,
                             !.dashEndTime = IF s.ai = "dashing" THEN StartTime + 1000 ELSE 0,
                             !.lastMinionSpawnTime = StartTime ] ]

InitBoss ==
  /\ \E s \in BossSessions :
       LET g == getInitialState("normal", << >>, BossWorld, << >>)
           healer == spawned(g.nextId + 1, "healer", Vec(bossPlayerPos.x + Px(24) + Px(90), rowB),
                             12, g.wave, g.difficultyModifiers)
           minion == Monster(g.nextId + 2, "minion", Vec(bossPlayerPos.x - Px(MINION_SIZE) - Px(1), rowB),
                             MINION_SIZE, (18 * g.difficultyModifiers.monsterSpeed) \div 100,
                             10 * HS, 5, 0, 0)
       IN  gs = [g EXCEPT !.player.position = bossPlayerPos,
                          !.monsters = << BossOf(g, s) >>
                                         \o (IF s.healer THEN << healer >> ELSE << >>)
                                         \o (IF s.minion THEN << minion >> ELSE << >>),
                          !.nextId = @ + 3,
                          !.isBossWave = TRUE,
                          !.monstersKilledThisWave = g.monstersToKillForNextWave,
                          !.score = 100,
                          !.lastMonsterSpawnTime = StartTime]
  /\ now = StartTime
  /\ ev = NoEvents
  /\ drop = NoWeapon

\* the world generateWorldObjects proposes for the next wave
NextWorld ==
  [ obstacles |-> << Obstacle(0, Vec(Px(500), rowB), Square(40), 300 * HS) >>,
    barrels   |-> << Barrel(0, Vec(Px(2000), rowB), 10 * HS) >> ]

\* the random positions a teleport draws: a free one at once, or only
\* positions on the obstacle
TeleportSamples == { << Vec(Px(300), rowB) >>, << Vec(Px(1195), rowB) >> }

BossInputs ==
  { [NoInput EXCEPT !.shooting = sh, !.teleport = tp,
                    !.randomAction = ra, !.world = NextWorld,
                    !.bossSamples = << Vec(Px(800), rowB) >>,
                    !.spawnSamples = << Vec(Px(100), rowB) >>] :
      sh \in {"none", "left", "right"}, tp \in TeleportSamples, ra \in {50, 99} }

TickBoss == TickIn(BossInputs)

NextBoss == TickBoss \/ LevelUpSelect \/ PauseToggle

SpecBoss == InitBoss /\ [][NextBoss]_vars

\* --- the dash: the boss of wave 1 in phase 2, in a dash at the player; the
\* --- player has full health, or the 3 or 1 hit points that five or six
\* --- earlier dashes have left of 100 (50, 25, 12, 6, 3, 1)
InitDash ==
  /\ \E health \in {100, 3, 1} :
       LET g == getInitialState("normal", << >>, BossWorld, << >>)
       IN  gs = [g EXCEPT !.player.position = bossPlayerPos,
                          !.player.health = health * HS,
                          !.monsters = << BossOf(g, [health |-> 385, phase |-> 2, ai |-> "dashing"]) >>,
                          !.nextId = @ + 1,
                          !.isBossWave = TRUE,
                          !.monstersKilledThisWave = g.monstersToKillForNextWave,
                          !.score = 100,
                          !.lastMonsterSpawnTime = StartTime]
  /\ now = StartTime
  /\ ev = NoEvents
  /\ drop = NoWeapon

NextDash == TickBoss \/ PauseToggle

SpecDash == InitDash /\ [][NextDash]_vars

\* --- level-ups: the boss of wave 1 with its last hit points left, next to
\* --- a player with 0 or 90 experience points; its gem is worth 200
\* two orders in which the sort of line 1143 can leave PREDEFINED_UPGRADES
Shuffles ==
  { NoInput.shuffled,
    << "add_shield_1", "max_shield_1", "pierce_up_1", "hp_up_1", "heal_1", "thorns_1" >> }

InitLevel ==
  /\ \E xp \in {0, 90} :
       LET g == getInitialState("normal", << >>, BossWorld, << >>)
       IN  gs = [g EXCEPT !.player.position = bossPlayerPos,
                          !.player.xp = xp * 100,
                          !.monsters = << BossOf(g, [health |-> 10, phase |-> 3, ai |-> "fresh"]) >>,
                          !.nextId = @ + 1,
                          !.isBossWave = TRUE,
                          !.monstersKilledThisWave = g.monstersToKillForNextWave,
                          !.score = 100,
                          !.lastMonsterSpawnTime = StartTime]
  /\ now = StartTime
  /\ ev = NoEvents
  /\ drop = NoWeapon

LevelInputs ==
  { [NoInput EXCEPT !.shooting = sh, !.shuffled = sf, !.world = NextWorld,
                    !.teleport = << Vec(Px(300), rowB) >>,
                    !.bossSamples = << Vec(Px(800), rowB) >>,
                    !.spawnSamples = << Vec(Px(100), rowB) >>] :
      sh \in {"none", "right"}, sf \in Shuffles }

TickLevel == TickIn(LevelInputs)

NextLevel == TickLevel \/ LevelUpSelect \/ PauseToggle

SpecLevel == InitLevel /\ [][NextLevel]_vars

\* --- the end of wave 1 on the player's starting row: weak monsters next
\* --- to the player, most of the wave's kills done
\* the sessions: the kills recorded, how long ago the director spawned, the
\* experience so far, and whether a second weak monster stands to the left
WaveSessions ==
  { [killed |-> 9, ago |-> 2500, xp |-> 0, second |-> FALSE],
    [killed |-> 9, ago |-> 0, xp |-> 0, second |-> FALSE],
    [killed |-> 9, ago |-> 2500, xp |-> 90, second |-> FALSE],
    [killed |-> 9, ago |-> 1500, xp |-> 0, second |-> TRUE],
    [killed |-> 8, ago |-> 2500, xp |-> 0, second |-> TRUE] }

\* a monster of wave 1 that earlier hits have left with ten health points
weak(id, pos, g) ==
  [spawned(id, "normal", pos, 12, 1, g.difficultyModifiers) EXCEPT !.health = 10 * HS]

InitWave ==
  /\ \E s \in WaveSessions :
       LET g == getInitialState("normal", << >>, [obstacles |-> << >>, barrels |-> << >>], << >>)
       IN  gs = [g EXCEPT !.monsters =
                            << weak(g.nextId, Vec(playerInitialPos.x + Px(20) + 5, rowY), g) >>
                              \o (IF s.second
                                  THEN << weak(g.nextId + 1,
                                               Vec(playerInitialPos.x - Px(MONSTER_SIZE) - 5, rowY), g) >>
                                  ELSE << >>),
                          !.nextId = @ + 2,
                          !.player.xp = s.xp * 100,
                          !.monstersKilledThisWave = s.killed,
                          !.score = s.killed * 10,
                          !.lastMonsterSpawnTime = StartTime - s.ago]
  /\ now = StartTime
  /\ ev = NoEvents
  /\ drop = NoWeapon

WaveInputs ==
  { [NoInput EXCEPT !.shooting = sh,
                    !.bossSamples = << Vec(Px(800), rowY) >>,
                    !.spawnSamples = << Vec(Px(100), rowY) >>] :
      sh \in {"none", "left", "right"} }

TickWave == TickIn(WaveInputs)

NextWave == TickWave \/ LevelUpSelect \/ PauseToggle

SpecWave == InitWave /\ [][NextWave]_vars

\* --- two barrels: the player has walked in between two barrels of the
\* --- world, each five pixels away, each within the blast of the other
barrelPlayerPos == Vec(playerInitialPos.x + Px(300), rowY)

BarrelWorld ==
  [ obstacles |-> << Obstacle(1, Vec(barrelPlayerPos.x + Px(70), rowY), Square(40), 300 * HS) >>,
    barrels   |-> << Barrel(2, Vec(barrelPlayerPos.x - Px(5) - Px(EXPLOSIVE_BARREL_SIZE), rowY), 10 * HS),
                     Barrel(3, Vec(barrelPlayerPos.x + Px(PLAYER_SIZE) + Px(5), rowY), 10 * HS) >> ]

InitBarrel ==
  /\ \E difficulty \in {"normal", "hard"}, cards \in {<< >>, << "c_hp_1", "c_shield_1" >>} :
       gs = [getInitialState(difficulty, cards, BarrelWorld, << >>)
               EXCEPT !.player.position = barrelPlayerPos,
                      !.lastMonsterSpawnTime = StartTime]
  /\ now = StartTime
  /\ ev = NoEvents
  /\ drop = NoWeapon

BarrelInputs ==
  { [NoInput EXCEPT !.shooting = sh, !.spawnSamples = << Vec(Px(100), rowY) >>] :
      sh \in {"none", "left", "right"} }

TickBarrel == TickIn(BarrelInputs)

NextBarrel == TickBarrel \/ PauseToggle

SpecBarrel == InitBarrel /\ [][NextBarrel]_vars

\* --- piercing: the player stands still on the starting row and fires
\* --- along it; two frames to the right stands an obstacle or a barrel,
\* --- on the left an elite touches the player
\* the sessions: the piercing of the weapon held and what stands on the right
PierceSessions ==
  { [piercing |-> pc, target |-> tg] : pc \in {0, 2, 3}, tg \in {"obstacle", "barrel"} }

PierceWorld(target) ==
  IF target = "obstacle"
  THEN [ obstacles |-> << Obstacle(1, Vec(playerInitialPos.x + Px(25), rowY), Square(40), 300 * HS) >>,
         barrels   |-> << >> ]
  ELSE [ obstacles |-> << >>,
         barrels   |-> << Barrel(1, Vec(playerInitialPos.x + Px(25), rowY), 30 * HS) >> ]

InitPierce ==
  /\ \E s \in PierceSessions :
       LET g == getInitialState("normal", << >>, PierceWorld(s.target), << >>)
       IN  gs = [g EXCEPT !.equippedWeapons[1].piercing = s.piercing,
                          !.monsters =
                             << spawned(g.nextId, "elite",
                                        Vec(playerInitialPos.x - Px(MONSTER_SIZE) - Px(1), rowY), 17, 1,
                                        g.difficultyModifiers) >>,
                          !.nextId = @ + 1,
                          !.lastMonsterSpawnTime = StartTime]
  /\ now = StartTime
  /\ ev = NoEvents
  /\ drop = NoWeapon

PierceInputs ==
  { [NoInput EXCEPT !.shooting = sh, !.isCrit = crit, !.spawnSamples = << Vec(Px(100), rowY) >>] :
      sh \in {"none", "left", "right"}, crit \in BOOLEAN }

TickPierce == TickIn(PierceInputs)

NextPierce == TickPierce \/ PauseToggle

SpecPierce == InitPierce /\ [][NextPierce]_vars

\* --- a barrel and a level-up: five pixels to the right of the player
\* --- stands a barrel that one bullet uses up, on the left a weak monster
\* --- whose gem may complete the level
\* the experience points the player starts with
BlastXps == { 0, 90 }

BlastWorld ==
  [ obstacles |-> << >>,
    barrels   |-> << Barrel(1, Vec(playerInitialPos.x + Px(PLAYER_SIZE) + Px(5), rowY), 10 * HS) >> ]

InitBlast ==
  /\ \E xp \in BlastXps :
       LET g == getInitialState("normal", << >>, BlastWorld, << >>)
       IN  gs = [g EXCEPT !.monsters =
                            << weak(g.nextId, Vec(playerInitialPos.x - Px(MONSTER_SIZE) - 5, rowY), g) >>,
                          !.nextId = @ + 1,
                          !.player.xp = xp * 100,
                          !.lastMonsterSpawnTime = StartTime]
  /\ now = StartTime
  /\ ev = NoEvents
  /\ drop = NoWeapon

TickBlast == TickIn(WaveInputs)

NextBlast == TickBlast \/ LevelUpSelect \/ PauseToggle

SpecBlast == InitBlast /\ [][NextBlast]_vars

\* --- a dying monster: a monster that died a moment ago still overlaps the
\* --- player, whose invincibility has run out, and a barrel of the world on
\* --- its other side; a weak monster walks in from the right
\* the sessions: how long ago the monster died, whether a healer stands to
\* the left of the barrel, and the experience so far
DyingSessions ==
  { [ago |-> a, healer |-> h, xp |-> xp] : a \in {0, 500, 1000}, h \in BOOLEAN, xp \in {0, 90} }

corpsePos == Vec(playerInitialPos.x - Px(MONSTER_SIZE) + Px(4), rowY)

DyingWorld ==
  [ obstacles |-> << >>,
    barrels |-> << Barrel(1, Vec(corpsePos.x - Px(EXPLOSIVE_BARREL_SIZE) + Px(4), rowY), 10 * HS) >> ]

InitDying ==
  /\ \E s \in DyingSessions :
       LET g == getInitialState("normal", << >>, DyingWorld, << >>)
           corpse == [weak(g.nextId, corpsePos, g) EXCEPT !.health = 0, !.diesAt = StartTime - s.ago]
           walker == weak(g.nextId + 1, Vec(playerInitialPos.x + Px(PLAYER_SIZE) + Px(6), rowY), g)
           healer == spawned(g.nextId + 2, "healer",
                             Vec(DyingWorld.barrels[1].position.x - Px(HEALER_SIZE) - Px(10), rowY),
                             12, g.wave, g.difficultyModifiers)
       IN  gs = [g EXCEPT !.monsters = << corpse, walker >> \o (IF s.healer THEN << healer >> ELSE << >>),
                          !.nextId = @ + 3,
                          !.player.xp = s.xp * 100,
                          !.lastMonsterSpawnTime = StartTime]
  /\ now = StartTime
  /\ ev = NoEvents
  /\ drop = NoWeapon

TickDying == TickIn(WaveInputs)

NextDying == TickDying \/ LevelUpSelect \/ PauseToggle

SpecDying == InitDying /\ [][NextDying]_vars

\* --- a wisp: it stands five pixels to the right of the player, who may
\* --- walk into it
\* the sessions, by the wisp's aiState: "fresh" has none yet, "teleporting"
\* began a teleport 200 ms ago, "waiting" began one three seconds ago and
\* has fired since, "charging" began one two seconds ago and reappeared
\* 300 ms later, just before the game was paused
WispSessions == { "fresh", "teleporting", "waiting", "charging" }

wispPos == Vec(playerInitialPos.x + Px(PLAYER_SIZE) + Px(5), rowY)

\* the places findSafeTeleportLocation draws for a wisp
WispPlaces == { << Vec(Px(300), rowY) >>, << Vec(playerInitialPos.x - Px(WISP_SIZE) + Px(4), rowY) >> }

WispOf(g, s) ==
  LET w == spawned(g.nextId, "wisp", wispPos, 12, g.wave, g.difficultyModifiers)
      began(ago, to) == << [ from |-> Vec(Px(300), rowY), to |-> to, startTime |-> StartTime - ago ] >>
  IN  CASE s = "teleporting" ->
             [w EXCEPT !.isHidden = TRUE,
                       !.aiState = [NoAI EXCEPT !.type = "teleporting",
                                                !.lastActionTime = StartTime - 200,
                                                !.lastAttackTime = StartTime - 200,
                                                !.teleportData =
                                                   << [ from |-> wispPos, to |-> Vec(Px(300), rowY),
                                                        startTime |-> StartTime - 200 ] >>]]
        [] s = "waiting" ->
             [w EXCEPT !.aiState = [NoAI EXCEPT !.type = "hesitate",
                                                !.lastActionTime = StartTime - 2700,
                                                !.lastAttackTime = StartTime - 3000,
                                                !.teleportData = began(3000, wispPos)]]
        [] s = "charging" ->
             [w EXCEPT !.aiState = [NoAI EXCEPT !.type = "hesitate",
                                                !.lastActionTime = StartTime - 1700,
                                                !.lastAttackTime = StartTime - 2000,
                                                !.isChargingAttack = TRUE,
                                                !.teleportData = began(2000, wispPos)]]
        [] OTHER -> w

InitWisp ==
  /\ \E s \in WispSessions :
       LET g == getInitialState("normal", << >>, [obstacles |-> << >>, barrels |-> << >>], << >>)
       IN  gs = [g EXCEPT !.monsters = << WispOf(g, s) >>,
                          !.nextId = @ + 1,
                          !.isPaused = (s = "charging"),
                          !.lastMonsterSpawnTime = StartTime]
  /\ now = StartTime
  /\ ev = NoEvents
  /\ drop = NoWeapon

WispInputs ==
  { [NoInput EXCEPT !.shooting = sh, !.moveVector = Vec(mv, 0), !.wispTo = to,
                    !.spawnSamples = << Vec(Px(100), rowY) >>] :
      sh \in {"none", "right"}, mv \in {0, 1}, to \in WispPlaces }

TickWisp == TickIn(WispInputs)

NextWisp == TickWisp \/ PauseToggle

SpecWisp == InitWisp /\ [][NextWisp]_vars

\* --- damage zones: the player holds the Flamethrower; a bullet fired to
\* --- the left some time ago is still in flight, a weak monster stands
\* --- five pixels to the right
\* the sessions: the age of the bullet in flight
ZoneSessions == { 2000, 2500 }

InitZone ==
  /\ \E age \in ZoneSessions :
       LET g == getInitialState("normal", << >>, [obstacles |-> << >>, barrels |-> << >>], << >>)
           old == [ position |-> Vec(playerInitialPos.x - Px(600),
                                     rowY + Px(PLAYER_SIZE) \div 2 - Px(BULLET_SIZE) \div 2),
                    size |-> Square(BULLET_SIZE),
                    velocity |-> Vec(-Px(Flamethrower.bulletSpeed), 0),
                    damage |-> Flamethrower.damage * HS,
                    piercingLeft |-> Flamethrower.piercing,
                    createdAt |-> StartTime - age,
                    onImpact |-> Flamethrower.onImpact ]
       IN  gs = [g EXCEPT !.equippedWeapons[1] = Flamethrower,
                          !.bullets = << old >>,
                          !.monsters = << weak(g.nextId, Vec(playerInitialPos.x + Px(PLAYER_SIZE) + Px(5), rowY), g) >>,
                          !.nextId = @ + 1,
                          !.lastShotTime = StartTime - age,
                          !.lastMonsterSpawnTime = StartTime]
  /\ now = StartTime
  /\ ev = NoEvents
  /\ drop = NoWeapon

TickZone == TickIn(WaveInputs)

NextZone == TickZone \/ PauseToggle

SpecZone == InitZone /\ [][NextZone]_vars

\* --- target display: the piercing sessions of a weapon of piercing 2,
\* --- fired without critical hits
InitTarget == InitPierce /\ gs.equippedWeapons[1].piercing = 2

TargetInputs == { in \in PierceInputs : ~in.isCrit }

TickTarget == TickIn(TargetInputs)

NextTarget == TickTarget \/ PauseToggle

SpecTarget == InitTarget /\ [][NextTarget]_vars

\* --- wrap-around: the pure function handleWrapAround on entities placed
\* --- on, next to and beyond the edges of the world
\* the number of times a behaviour wraps its entity
MaxWraps == 2

\* the sizes of a bullet, the player and a boss
WrapSizes == { Square(BULLET_SIZE), Square(PLAYER_SIZE), Square(BOSS_SIZE) }

\* coordinates around the two edges of an axis of length len for an entity
\* of extent w
WrapCoords(len, w) == { -(2 * w), -w - 1, -w, 0, len, len + 1, len + w }

InitWrap ==
  /\ \E size \in WrapSizes :
       \E x \in WrapCoords(Px(WORLD_WIDTH), size.width), y \in WrapCoords(Px(WORLD_HEIGHT), size.height) :
         gs = [position |-> Vec(x, y), size |-> size]
  /\ now = StartTime
  /\ ev = [wraps |-> 0, before |-> Vec(0, 0)]
  /\ drop = NoWeapon

\* a caller sets the entity's position to handleWrapAround(entity)
Wrap ==
  /\ ev.wraps < MaxWraps
  /\ gs' = [gs EXCEPT !.position = handleWrapAround(gs)]
  /\ ev' = [wraps |-> ev.wraps + 1, before |-> gs.position]
  /\ UNCHANGED << now, drop >>

NextWrap == Wrap

SpecWrap == InitWrap /\ [][NextWrap]_vars

\* --- sliding: the pure function getSlidingMove for an entity of the
\* --- player's size around an obstacle with a barrel next to it
\* the number of times a behaviour moves its entity
MaxSlides == 2

SlideObstacles ==
  << Obstacle(1, Vec(Px(100), Px(100)), Square(40), 300 * HS),
     Barrel(2, Vec(Px(146), Px(100)), 10 * HS) >>

\* start coordinates: clear of the obstacle by two pixels, touching it,
\* two pixels into it, and at its far side
SlideCoords == { Px(78), Px(80), Px(82), Px(100), Px(138), Px(140), Px(142) }

\* the speeds of a monster of wave 1 and of the player, in 1/PS pixel per frame
SlideSpeeds == { 12, Px(4) }

InitSlide ==
  /\ \E x \in SlideCoords, y \in SlideCoords :
       gs = [position |-> Vec(x, y), size |-> Square(PLAYER_SIZE)]
  /\ now = StartTime
  /\ ev = [slides |-> 0, before |-> Vec(0, 0), moveVector |-> Vec(0, 0), speed |-> 0]
  /\ drop = NoWeapon

\* a caller sets the entity's position to getSlidingMove(entity, ...)
Slide ==
  /\ ev.slides < MaxSlides
  /\ \E mx \in {-1, 0, 1}, my \in {-1, 0, 1}, speed \in SlideSpeeds :
       /\ gs' = [gs EXCEPT !.position = getSlidingMove(gs, Vec(mx, my), speed, SlideObstacles)]
       /\ ev' = [slides |-> ev.slides + 1, before |-> gs.position,
                 moveVector |-> Vec(mx, my), speed |-> speed]
  /\ UNCHANGED << now, drop >>

NextSlide == Slide

SpecSlide == InitSlide /\ [][NextSlide]_vars

\* --- teleport search: the pure function findSafeTeleportLocation on
\* --- streams of random samples that collide a given number of times
\* the objects to avoid: none, an obstacle, an obstacle and a barrel
TeleportObjects ==
  { << >>,
    << Obstacle(1, Vec(Px(300), Px(300)), Square(40), 300 * HS) >>,
    << Obstacle(1, Vec(Px(300), Px(300)), Square(40), 300 * HS),
       Barrel(2, Vec(Px(1190), Px(890)), 10 * HS) >> }

\* a sample inside the obstacle and two samples in the open
blockedSample == Vec(Px(310), Px(310))

freeSamples == << Vec(Px(100), Px(100)), Vec(Px(700), Px(100)) >>

\* the streams: n blocked samples and then free ones, n around 0 and around
\* maxTries, and a stream that alternates
TeleportStreams ==
  { [i \in 1..(n + 1) |-> IF i <= n THEN blockedSample ELSE freeSamples[f]] :
      n \in {0, 1, 2, maxTries - 2, maxTries - 1, maxTries, maxTries + 1}, f \in {1, 2} }
  \cup { << blockedSample >>, << blockedSample, freeSamples[1], blockedSample, freeSamples[2] >> }

InitTeleport ==
  /\ \E size \in { Square(PLAYER_SIZE), Square(BOSS_SIZE) }, objs \in TeleportObjects,
        samples \in TeleportStreams :
       gs = [ entitySize |-> size, existingObjects |-> objs, samples |-> samples,
              pc |-> "do", tries |-> 0, collision |-> FALSE, position |-> Vec(0, 0),
              result |-> Vec(0, 0) ]
  /\ now = StartTime
  /\ ev = NoEvents
  /\ drop = NoWeapon

\* a loop that admits one try more
keepsTryingOnceMore(collision, tries) == collision /\ tries <= maxTries

\* line 253: while (collision && tries < maxTries)
keepsTrying(collision, tries) == collision /\ tries < maxTries

\* lines 237-253, one pass of the loop: a sample is drawn and tested
\* against the objects, and the loop goes on or ends
Try ==
  /\ gs.pc = "do"
  /\ LET tries == gs.tries + 1
         position == sampleAt(gs.samples, tries)
         collision == collidesAny([position |-> position, size |-> gs.entitySize], gs.existingObjects)
     IN  gs' = [gs EXCEPT !.tries = tries, !.position = position, !.collision = collision,
                          !.pc = IF keepsTrying(collision, tries) THEN "do" ELSE "return"]
  /\ UNCHANGED << now, ev, drop >>

\* lines 255-260: the centre of the world if the last sample collided, else
\* the last sample
Return ==
  /\ gs.pc = "return"
  /\ gs' = [gs EXCEPT !.pc = "done",
                      !.result = IF gs.collision
                                 THEN Vec(Px(WORLD_WIDTH) \div 2, Px(WORLD_HEIGHT) \div 2)
                                 ELSE gs.position]
  /\ UNCHANGED << now, ev, drop >>

NextTeleport == Try \/ Return

SpecTeleport == InitTeleport /\ [][NextTeleport]_vars

\* ---------------------------------------------------------------------
\* The persisted player profile (App.tsx)
\* ---------------------------------------------------------------------
\* The values JSON.parse can return, and undefined for a property that is
\* not there.  The fields of an object are the properties it has.
Undefined == [type |-> "undefined"]

Null == [type |-> "null"]

Num(n) == [type |-> "number", n |-> n]

Str(text) == [type |-> "string", text |-> text]

Arr(items) == [type |-> "array", items |-> items]

Obj(fields) == [type |-> "object", fields |-> fields]

\* v[key] for a value v that is neither null nor undefined
get(v, key) ==
  IF v.type = "object" /\ key \in DOMAIN v.fields THEN v.fields[key] ELSE Undefined

\* App.tsx getInitialProfile
getInitialProfile ==
  Obj([cardPacks |-> Num(1), cardInventory |-> Arr(<< >>), equippedCardIds |-> Arr(<< >>)])

\* App.tsx lines 40-55, the initializer of the profile state.  item is what
\* localStorage.getItem returns: nothing, a text JSON.parse throws on, or a
\* text that parses to item.value.  Reading a property of null and applying
\* `in` to null throw a TypeError, which the catch turns into the default.
initialProfile(item) ==
  IF item.kind # "json" THEN getInitialProfile
  ELSE
    LET parsedProfile == item.value
        cardInventory == get(parsedProfile, "cardInventory")
    IN  IF parsedProfile.type = "null" THEN getInitialProfile
        ELSE IF cardInventory.type # "array" THEN getInitialProfile
        ELSE IF Len(cardInventory.items) = 0 THEN parsedProfile
        ELSE IF cardInventory.items[1].type = "null" THEN getInitialProfile
        ELSE IF /\ cardInventory.items[1].type = "object"
                /\ "cardId" \in DOMAIN cardInventory.items[1].fields
             THEN parsedProfile
             ELSE getInitialProfile

\* --- the start of the app on what an earlier session, an older version or
\* --- anything else has left in localStorage
\* what cardPacks, cardInventory and equippedCardIds can hold: a value of
\* the right shape, a value of a wrong shape, or nothing
StoredPacks == { Undefined, Num(1), Num(3), Str("1") }

StoredEntry == Obj([cardId |-> Str("c_hp_1"), count |-> Num(1)])

StoredInventories ==
  { Undefined, Str("c_hp_1"), Arr(<< >>), Arr(<< StoredEntry >>),
    Arr(<< Obj([id |-> Str("c_hp_1")]) >>), Arr(<< Null >>), Arr(<< Str("c_hp_1") >>),
    Arr(<< StoredEntry, Null >>) }

StoredEquipped == { Undefined, Arr(<< >>), Arr(<< Str("c_hp_1") >>) }

\* the object with the properties of f that are not undefined
objectOf(f) ==
  Obj([k \in { key \in DOMAIN f : f[key] # Undefined } |-> f[k]])

StoredItems ==
  { [kind |-> "none"], [kind |-> "text"], [kind |-> "json", value |-> Null],
    [kind |-> "json", value |-> Num(1)] }
  \cup { [kind |-> "json",
           value |-> objectOf([cardPacks |-> pk, cardInventory |-> inv, equippedCardIds |-> eq])] :
           pk \in StoredPacks, inv \in StoredInventories, eq \in StoredEquipped }

InitProfile ==
  /\ \E item \in StoredItems :
       /\ gs = [mounted |-> FALSE, profile |-> Undefined, storage |-> item]
       /\ ev = [stored |-> item]
  /\ now = StartTime
  /\ drop = NoWeapon

\* the first render of App: the profile state is initialised, and the
\* effect of lines 58-64 writes it back to localStorage
Mount ==
  /\ ~gs.mounted
  /\ gs' = [mounted |-> TRUE, profile |-> initialProfile(gs.storage),
            storage |-> [kind |-> "json", value |-> initialProfile(gs.storage)]]
  /\ UNCHANGED << now, ev, drop >>

NextProfile == Mount

SpecProfile == InitProfile /\ [][NextProfile]_vars

\* ---------------------------------------------------------------------
\* Card screen (components/screens/CardManagementScreen: unnamed/part_002)
\* ---------------------------------------------------------------------
\* the number of card packs a behaviour gains on top of the first one
MaxPacks == 1

\* six of the cards of ALL_CARDS
CardIds == { "c_hp_1", "c_speed_1", "c_shield_1", "r_hp_2", "r_thorns_1", "e_haste_1" }

\* what the three draws of a pack yield
DrawnCards ==
  { << "c_hp_1", "c_speed_1", "c_shield_1" >>, << "r_hp_2", "r_thorns_1", "e_haste_1" >>,
    << "c_hp_1", "c_hp_1", "r_hp_2" >> }

\* newInventory.find(c => c.cardId === id): the index of the entry, 0 if none
findCard(cardInventory, id) ==
  LET found == { i \in 1..Len(cardInventory) : cardInventory[i].cardId = id }
  IN  IF found = {} THEN 0 ELSE CHOOSE i \in found : \A j \in found : i <= j

\* existingCard.count++, or a new entry of count 1
addCard(cardInventory, id) ==
  IF findCard(cardInventory, id) # 0
  THEN [cardInventory EXCEPT ![findCard(cardInventory, id)].count = @ + 1]
  ELSE Append(cardInventory, [cardId |-> id, count |-> 1])

\* a click that equips a card whatever its count
handleCardClickAnyCount(p, card) ==
  IF \E i \in 1..Len(p.equippedCardIds) : p.equippedCardIds[i] = card
  THEN [p EXCEPT !.equippedCardIds = SelectSeq(@, LAMBDA id : id # card),
                 !.cardInventory = addCard(@, card)]
  ELSE IF Len(p.equippedCardIds) < MAX_EQUIPPED_CARDS /\ findCard(p.cardInventory, card) # 0
       THEN [p EXCEPT !.equippedCardIds = Append(@, card),
                      !.cardInventory[findCard(p.cardInventory, card)].count = @ - 1]
       ELSE p

\* the updater of handleCardClick (lines 148-169): an equipped card goes
\* back to the inventory; any other card is equipped if a slot is free and
\* the inventory holds a copy of it; else the profile is returned as it is
handleCardClick(p, card) ==
  IF \E i \in 1..Len(p.equippedCardIds) : p.equippedCardIds[i] = card
  THEN [p EXCEPT !.equippedCardIds = SelectSeq(@, LAMBDA id : id # card),
                 !.cardInventory = addCard(@, card)]
  ELSE IF /\ Len(p.equippedCardIds) < MAX_EQUIPPED_CARDS
          /\ findCard(p.cardInventory, card) # 0
          /\ p.cardInventory[findCard(p.cardInventory, card)].count > 0
       THEN [p EXCEPT !.equippedCardIds = Append(@, card),
                      !.cardInventory[findCard(p.cardInventory, card)].count = @ - 1]
       ELSE p

\* the profile of a first visit, as the card screen and the game hold it
InitCards ==
  /\ gs = [ profile |-> [cardPacks |-> 1, cardInventory |-> << >>, equippedCardIds |-> << >>],
            isRevealing |-> FALSE, gained |-> 0 ]
  /\ ev = [click |-> "", before |-> gs.profile]
  /\ now = StartTime
  /\ drop = NoWeapon

\* handleCardPackGained (App.tsx 125-127)
CardPackGained ==
  /\ gs.gained < MaxPacks
  /\ gs' = [gs EXCEPT !.profile.cardPacks = @ + 1, !.gained = @ + 1]
  /\ ev' = [click |-> "", before |-> gs.profile]
  /\ UNCHANGED << now, drop >>

\* handleOpenPack up to the timer (lines 94-98)
OpenPack ==
  /\ ~(gs.profile.cardPacks <= 0 \/ gs.isRevealing)
  /\ gs' = [gs EXCEPT !.profile.cardPacks = @ - 1, !.isRevealing = TRUE]
  /\ ev' = [click |-> "", before |-> gs.profile]
  /\ UNCHANGED << now, drop >>

\* the timer of handleOpenPack (lines 100-138): the three cards drawn join
\* the inventory
RECURSIVE addCards(_, _)
addCards(cardInventory, drawnCards) ==
  IF drawnCards = << >> THEN cardInventory
  ELSE addCards(addCard(cardInventory, Head(drawnCards)), Tail(drawnCards))

Reveal ==
  /\ gs.isRevealing
  /\ \E drawnCards \in DrawnCards :
       gs' = [gs EXCEPT !.profile.cardInventory = addCards(@, drawnCards), !.isRevealing = FALSE]
  /\ ev' = [click |-> "", before |-> gs.profile]
  /\ UNCHANGED << now, drop >>

\* handleGameOver and handlePlayAgain (App.tsx 86-108): the equipped cards go
GameOver ==
  /\ gs.profile.equippedCardIds # << >>
  /\ gs' = [gs EXCEPT !.profile.equippedCardIds = << >>]
  /\ ev' = [click |-> "", before |-> gs.profile]
  /\ UNCHANGED << now, drop >>

\* a click on a card
CardClick ==
  /\ \E card \in CardIds :
       /\ gs' = [gs EXCEPT !.profile = handleCardClick(@, card)]
       /\ ev' = [click |-> card, before |-> gs.profile]
  /\ UNCHANGED << now, drop >>

NextCards == CardPackGained \/ OpenPack \/ Reveal \/ GameOver \/ CardClick

SpecCards == InitCards /\ [][NextCards]_vars

\* ---------------------------------------------------------------------
\* Properties
\* ---------------------------------------------------------------------
\* the health of every element of a list is within 0 and its maximum
inRange(list) == \A i \in 1..Len(list) : 0 <= list[i].health /\ list[i].health <= list[i].maxHealth

\* C1: a frame that runs while isPaused, isLevelingUp or isGameOver is set
\* returns the previous state: no field of gs changes, whatever the clock
\* and the inputs.
GatedFrameIsNoOp ==
  [][(now' # now /\ (gs.isPaused \/ gs.isLevelingUp \/ gs.isGameOver)) => gs' = gs]_vars

\* a frame has just run behind the level-up screen
GatedFrameRan == ev.gated /\ gs.isLevelingUp /\ now > StartTime

PlayerBounds ==
  /\ 0 <= gs.player.health /\ gs.player.health <= gs.player.maxHealth
  /\ 0 <= gs.player.shield /\ gs.player.shield <= gs.player.maxShield

\* the player was hit and has then picked the upgrade that halves maxHealth
HitThenHalved ==
  /\ gs.player.level > 1 /\ ~gs.isLevelingUp
  /\ gs.player.damageMultiplier = 200
  /\ gs.player.invincibleUntil # 0
  /\ gs.player.health = gs.player.maxHealth

\* C4 as stated: a generated weapon has at least 1.1 times the damage of
\* the baseline weapon and a higher quality.
GeneratedWeaponImproves ==
  drop # NoWeapon =>
    LET W == gs.equippedWeapons[gs.player.equippedWeaponIndex]
    IN  drop.damage * 10 >= 11 * W.damage /\ drop.quality > W.quality

\* C7: a hit of final amount d takes min(shield, d) off the shield and
\* d - min(shield, d) x shieldAbsorption off the health, which stops at 0;
\* shield 50, absorption 0.75, health 100 and d = 40 give shield 10 and
\* health 90.  The state holds the shield and health the hit left.
ShieldAbsorbsHit ==
  \A i \in 1..Len(ev.hits) :
    LET h == ev.hits[i]
        toShield == Min(h.shield, h.d * HS)
    IN  /\ h.shieldAfter = h.shield - toShield
        /\ h.healthAfter * 100 = Max(0, h.health * 100 - (h.d * HS * 100 - toShield * h.absorption))
        /\ (h.shield = 50 * HS /\ h.absorption = 75 /\ h.health = 100 * HS /\ h.d = 40)
             => (h.shieldAfter = 10 * HS /\ h.healthAfter = 90 * HS)
        /\ i = Len(ev.hits) => (gs.player.shield = h.shieldAfter /\ gs.player.health = h.healthAfter)

\* the hit of the example has just landed
ExampleHit ==
  \E i \in 1..Len(ev.hits) :
    /\ ev.hits[i].shield = 50 * HS /\ ev.hits[i].health = 100 * HS /\ ev.hits[i].d = 40
    /\ gs.player.shield = 10 * HS

\* the phase of a boss (phase || 1)
phaseOf(m) == IF m.phase = 0 THEN 1 ELSE m.phase

\* C5: from one state to the next the wave never decreases, and it
\* increases only by one, only out of a boss wave, and only when a boss
\* that was alive is dying in the next state.
WaveMonotone ==
  [][ /\ gs'.wave >= gs.wave
      /\ gs'.wave # gs.wave =>
           /\ gs'.wave = gs.wave + 1
           /\ gs.isBossWave
           /\ \E i \in 1..Len(gs.monsters), j \in 1..Len(gs'.monsters) :
                /\ gs.monsters[i].type = "boss" /\ gs.monsters[i].diesAt = 0
                /\ gs'.monsters[j].id = gs.monsters[i].id /\ gs'.monsters[j].diesAt # 0 ]_vars

\* the boss of wave 1 has been killed and wave 2 has begun
BossDefeated == gs.wave = 2 /\ ev.bossKilled /\ ~gs.isBossWave

\* C6: from one state to the next the phase of a boss never decreases and
\* grows by at most one; it goes from 1 to 2 only at a health below 75% and
\* from 2 to 3 only at a health below 40% of the maximum.
PhaseMonotone ==
  [][ \A i \in 1..Len(gs.monsters), j \in 1..Len(gs'.monsters) :
        (gs.monsters[i].type = "boss" /\ gs'.monsters[j].id = gs.monsters[i].id) =>
          LET a == gs.monsters[i]
              b == gs'.monsters[j]
          IN  /\ phaseOf(b) >= phaseOf(a)
              /\ phaseOf(b) <= phaseOf(a) + 1
              /\ (phaseOf(a) = 1 /\ phaseOf(b) = 2) => a.health * 100 < a.maxHealth * 75
              /\ (phaseOf(a) = 2 /\ phaseOf(b) = 3) => a.health * 100 < a.maxHealth * 40 ]_vars

\* a boss that entered phase 2 has been healed back above 75%
HealedAboveThreshold ==
  \E i \in 1..Len(gs.monsters) :
    /\ gs.monsters[i].type = "boss" /\ gs.monsters[i].phase = 2
    /\ gs.monsters[i].health * 100 >= gs.monsters[i].maxHealth * 75
    /\ now > StartTime

\* C10 as stated: when the player meets a dashing boss in the collision
\* step, the player's health is halved (rounded down to a whole point), the
\* player is put where no obstacle and no barrel is, and the boss is in
\* hesitation in the state the frame returns.
DashRelocatesSafelyAsStated ==
  \A k \in 1..Len(ev.dash) :
    LET e == ev.dash[k] IN
    /\ 2 * e.healthAfter <= e.healthBefore
    /\ e.healthBefore < 2 * (e.healthAfter + HS)
    /\ ~e.overlaps
    /\ \E i \in 1..Len(gs.monsters) :
         gs.monsters[i].id = e.boss /\ gs.monsters[i].aiState.type = "hesitate"

\* the director of the frame from gs to gs' had a monster to spawn: the
\* interval had passed and the living monsters were below the cap
directorDue ==
  /\ now' - gs.lastMonsterSpawnTime > monsterSpawnInterval(gs.wave)
  /\ living(gs'.monsters) - (IF ev'.spawned # 0 THEN 1 ELSE 0) < maxMonsters(gs.wave)

\* the frame from gs to gs' brought the kills of the wave to the number the
\* wave asks for
reachesThreshold ==
  /\ ~gs.isWaitingForBossClear /\ ~gs.isBossWave
  /\ gs.monstersKilledThisWave < gs.monstersToKillForNextWave
  /\ gs'.wave = gs.wave
  /\ gs'.monstersKilledThisWave >= gs'.monstersToKillForNextWave

\* once a boss is due or present, no regular monster is spawned before the
\* next wave, and the boss stays due or present until then
noSpawnBeforeNextWave ==
  (gs.isWaitingForBossClear \/ gs.isBossWave) =>
     /\ ev'.spawned = 0 \/ gs'.wave = gs.wave + 1
     /\ gs'.isWaitingForBossClear \/ gs'.isBossWave \/ gs'.wave = gs.wave + 1

\* C9 as stated: while no boss is due or present and the kills are below
\* the threshold, a frame spawns a monster exactly when the interval has
\* passed and the living are below the cap; the frame in which the kills
\* reach the threshold sets isWaitingForBossClear and spawns nothing, and no
\* regular monster is spawned later in the wave.
SpawnGatingAsStated ==
  [][ (now' # now /\ ~ev'.gated) =>
        /\ (~gs.isWaitingForBossClear /\ ~gs.isBossWave
              /\ gs'.monstersKilledThisWave < gs'.monstersToKillForNextWave)
             => (ev'.spawned # 0 <=> directorDue)
        /\ reachesThreshold => (gs'.isWaitingForBossClear /\ ev'.spawned = 0)
        /\ noSpawnBeforeNextWave ]_vars

\* C9: in a frame that no level-up cuts short, while no boss is due or
\* present and the kills are below the threshold, a monster is spawned
\* exactly when the interval has passed and the living are below the cap;
\* a frame cut short by a level-up spawns nothing; the frame in which the
\* kills reach the threshold sets isWaitingForBossClear or, when no
\* non-boss monster is left alive, starts the boss wave at once, and it
\* spawns no regular monster; none is spawned later in the wave.
SpawnGating ==
  [][ (now' # now /\ ~ev'.gated) =>
        /\ (ev'.directorRan /\ ~gs.isWaitingForBossClear /\ ~gs.isBossWave
              /\ gs'.monstersKilledThisWave < gs'.monstersToKillForNextWave)
             => (ev'.spawned # 0 <=> directorDue)
        /\ ~ev'.directorRan => ev'.spawned = 0
        /\ reachesThreshold =>
             /\ ev'.spawned = 0
             /\ \/ gs'.isWaitingForBossClear /\ ~gs'.isBossWave
                \/ /\ gs'.isBossWave /\ ~gs'.isWaitingForBossClear
                   /\ \A i \in 1..Len(gs'.monsters) :
                        gs'.monsters[i].diesAt = 0 => gs'.monsters[i].type = "boss"
        /\ noSpawnBeforeNextWave ]_vars

\* the tenth kill has been made with a monster left alive: the boss is
\* due, the interval has passed and the director has spawned nothing
WaitingWhileDue ==
  /\ gs.isWaitingForBossClear /\ ev.directorRan /\ ev.spawned = 0
  /\ now - gs.lastMonsterSpawnTime > monsterSpawnInterval(gs.wave)
  /\ living(gs.monsters) < maxMonsters(gs.wave)
  /\ gs.monstersKilledThisWave >= gs.monstersToKillForNextWave

\* the damage the bullets of a frame did to the barrel id
RECURSIVE hitsOn(_, _)
hitsOn(id, hits) ==
  IF hits = << >> THEN 0
  ELSE (IF Head(hits).id = id THEN Head(hits).damage ELSE 0) + hitsOn(id, Tail(hits))

\* barrel i of gs exploded in the frame from gs to gs', and barrel j of gs
\* lies within its blast and met no trigger of its own
blastReaches(i, j) ==
  /\ i # j
  /\ \E k \in 1..Len(ev'.exploded) : ev'.exploded[k].id = gs.explosiveBarrels[i].id
  /\ inBlast(centerOf(gs.explosiveBarrels[j]), gs.explosiveBarrels[i].position)
  /\ gs.explosiveBarrels[j].id \in ev'.untriggered

\* every barrel whose health was used up when the frame began has exploded
usedUpExplode ==
  \A j \in 1..Len(gs.explosiveBarrels) :
    gs.explosiveBarrels[j].health <= 0 =>
      \E k \in 1..Len(ev'.exploded) : ev'.exploded[k].id = gs.explosiveBarrels[j].id

worldCentre == Vec(Px(WORLD_WIDTH) \div 2, Px(WORLD_HEIGHT) \div 2)

\* C10: when the player meets a dashing boss in the collision step, the
\* player's health is halved (rounded down to a whole point), the player is
\* put where no obstacle and no barrel of the start of the frame is or,
\* failing that, on the centre of the world, and the boss is in hesitation
\* in the state the frame returns.
DashRelocates ==
  \A k \in 1..Len(ev.dash) :
    LET e == ev.dash[k] IN
    /\ 2 * e.healthAfter <= e.healthBefore
    /\ e.healthBefore < 2 * (e.healthAfter + HS)
    /\ ~e.blocked \/ e.position = worldCentre
    /\ \E i \in 1..Len(gs.monsters) :
         gs.monsters[i].id = e.boss /\ gs.monsters[i].aiState.type = "hesitate"

\* a dash has hit the player, no free position was drawn, and the player
\* stands on the centre of the world, inside the obstacle
DashFellBack ==
  /\ ev.dash # << >>
  /\ ev.dash[1].blocked /\ ev.dash[1].overlaps
  /\ gs.player.position = worldCentre
  /\ 2 * gs.player.health <= ev.dash[1].healthBefore

\* C11: a call of handleWrapAround puts an entity that was beyond the right
\* (bottom) edge, as at x = WORLD_WIDTH + width, at -width (-height), one
\* that was wholly beyond the left (top) edge at WORLD_WIDTH (WORLD_HEIGHT),
\* leaves any other coordinate alone, and a second call changes nothing.
WrapIdempotent ==
  ev.wraps > 0 =>
    LET b == ev.before
        p == gs.position
        w == gs.size.width
        h == gs.size.height
    IN  /\ b.x = Px(WORLD_WIDTH) + w => p.x = -w
        /\ b.y = Px(WORLD_HEIGHT) + h => p.y = -h
        /\ b.x + w < 0 => p.x = Px(WORLD_WIDTH)
        /\ b.y + h < 0 => p.y = Px(WORLD_HEIGHT)
        /\ p.x \in {b.x, -w, Px(WORLD_WIDTH)}
        /\ p.y \in {b.y, -h, Px(WORLD_HEIGHT)}
        /\ handleWrapAround(gs) = p

\* an entity that stood at x = WORLD_WIDTH + width has been wrapped
WrappedFromRight ==
  /\ ev.wraps = 1
  /\ ev.before.x = Px(WORLD_WIDTH) + gs.size.width
  /\ gs.position.x = -gs.size.width

\* the bullet of list that was fired at time c (a session fires one bullet
\* per shot and at most one shot per frame), as a set of indices
firedAt(list, c) == { i \in 1..Len(list) : list[i].createdAt = c }

\* C12: no bullet of the state has piercingLeft <= 0, and a bullet that is
\* in the list before and after a step has not gained piercingLeft.
PiercingMonotone ==
  [][ /\ \A i \in 1..Len(gs'.bullets) :
           /\ gs'.bullets[i].piercingLeft > 0
           /\ \A j \in firedAt(gs.bullets, gs'.bullets[i].createdAt) :
                gs'.bullets[i].piercingLeft <= gs.bullets[j].piercingLeft ]_vars

\* a bullet of piercing 2 fired in an earlier frame is still in flight while
\* the frame took another bullet that hit something out of the list
PiercingBulletFlies ==
  /\ \E i \in 1..Len(gs.bullets) : gs.bullets[i].createdAt < now /\ gs.bullets[i].piercingLeft = 2
  /\ \E k \in 1..Len(ev.shots) : ev.shots[k].hitSomething

\* a value has the shape of a PlayerProfile
isProfile(v) ==
  /\ v.type = "object"
  /\ {"cardPacks", "cardInventory", "equippedCardIds"} \subseteq DOMAIN v.fields
  /\ v.fields.cardPacks.type = "number"
  /\ v.fields.cardInventory.type = "array"
  /\ \A i \in 1..Len(v.fields.cardInventory.items) :
       LET c == v.fields.cardInventory.items[i]
       IN  /\ c.type = "object"
           /\ {"cardId", "count"} \subseteq DOMAIN c.fields
           /\ c.fields.cardId.type = "string" /\ c.fields.count.type = "number"
  /\ v.fields.equippedCardIds.type = "array"
  /\ \A i \in 1..Len(v.fields.equippedCardIds.items) :
       v.fields.equippedCardIds.items[i].type = "string"

\* C13: once the app has started, its profile is the default profile
\* unless localStorage held a text that parses to a value of the shape of
\* a profile.
MalformedProfileReplaced ==
  gs.mounted =>
    \/ ev.stored.kind = "json" /\ isProfile(ev.stored.value)
    \/ gs.profile = getInitialProfile

\* the tries of the first maxTries whose sample overlaps none of the objects
freeTries ==
  { j \in 1..maxTries :
      ~collidesAny([position |-> sampleAt(gs.samples, j), size |-> gs.entitySize], gs.existingObjects) }

\* C14: findSafeTeleportLocation draws at most maxTries samples; it returns
\* the first of them that overlaps none of the objects, and the centre of
\* the world when each of the maxTries samples overlaps one.
TeleportSearch ==
  /\ gs.tries <= maxTries
  /\ gs.pc = "done" =>
       IF freeTries = {}
       THEN gs.tries = maxTries /\ gs.result = Vec(Px(WORLD_WIDTH) \div 2, Px(WORLD_HEIGHT) \div 2)
       ELSE /\ gs.tries \in freeTries /\ \A j \in freeTries : gs.tries <= j
            /\ gs.result = sampleAt(gs.samples, gs.tries)
            /\ ~collidesAny([position |-> gs.result, size |-> gs.entitySize], gs.existingObjects)

\* the search has drawn maxTries samples, each inside the obstacle, and has
\* fallen back to the centre of the world although the next sample was free
SearchExhausted ==
  /\ gs.pc = "done" /\ gs.tries = maxTries /\ gs.collision
  /\ Len(gs.samples) = maxTries + 1
  /\ gs.result = Vec(Px(WORLD_WIDTH) \div 2, Px(WORLD_HEIGHT) \div 2)

\* the state g with the two fields of the target display replaced
withTargets(g, targetedMonsters, targetedObstacle) ==
  [g EXCEPT !.targetedMonsters = targetedMonsters, !.targetedObstacle = targetedObstacle]

\* the states a and b agree on every field but the two of the target display
sameGameplay(a, b) ==
  \A f \in DOMAIN a \ {"targetedMonsters", "targetedObstacle"} : a[f] = b[f]

\* contents the target display may hold at time t next to the state g: an
\* empty slot, or a monster, obstacle or barrel of g (or no entity of g)
\* with another health, either hit just now and locked or hit long ago
TargetVariants(g, t) ==
  LET ids == { g.monsters[i].id : i \in 1..Len(g.monsters) }
               \cup { g.obstacles[i].id : i \in 1..Len(g.obstacles) }
               \cup { g.explosiveBarrels[i].id : i \in 1..Len(g.explosiveBarrels) }
               \cup { g.nextId }
  IN  { NoTarget } \cup
      { Target([id |-> id, health |-> HS], times[1], times[2]) :
          id \in ids,
          times \in { << t, t + 10000 >>, << t - TARGET_INFO_LOCK_DURATION - 1000, t - TARGET_INFO_LOCK_DURATION >> } }

\* C15: the target display does not influence gameplay: a frame run from
\* the state and the same frame (same inputs, clock and draws) run from
\* the state with other contents of targetedMonsters and targetedObstacle
\* return states that agree on every other field.
TargetsDisplayOnly ==
  \A in \in TargetInputs : \A e \in TargetVariants(gs, now) :
    sameGameplay(frame(gs, now + in.dt, in).state,
                 frame(withTargets(gs, << e, e, e >>, e), now + in.dt, in).state)

\* a frame in which a bullet hit a monster that the display now holds,
\* while the display also holds an obstacle hit before
TargetsWritten ==
  /\ gs.targetedObstacle.id # 0
  /\ \E i \in 1..Len(ev.shots) :
        /\ ev.shots[i].monster # 0
        /\ \E j \in 1..Len(gs.targetedMonsters) : gs.targetedMonsters[j].id = ev.shots[i].monster

\* the number of copies of card the inventory of profile p holds
countOf(p, card) ==
  IF findCard(p.cardInventory, card) = 0 THEN 0
  ELSE p.cardInventory[findCard(p.cardInventory, card)].count

\* a click on card in profile p asks to equip a sixth card or a card of
\* which the inventory holds no copy
asksTooMuch(p, card) ==
  /\ \A i \in 1..Len(p.equippedCardIds) : p.equippedCardIds[i] # card
  /\ Len(p.equippedCardIds) >= MAX_EQUIPPED_CARDS \/ countOf(p, card) = 0

\* C16: after any sequence of clicks in the card screen at most five cards
\* are equipped, none of them twice, and no inventory count is negative;
\* a click that asks for a sixth card or for a card of count 0 leaves the
\* profile as it was.
CardSlots ==
  /\ Len(gs.profile.equippedCardIds) <= 5
  /\ \A i, j \in 1..Len(gs.profile.equippedCardIds) :
        gs.profile.equippedCardIds[i] = gs.profile.equippedCardIds[j] => i = j
  /\ \A i \in 1..Len(gs.profile.cardInventory) : gs.profile.cardInventory[i].count >= 0
  /\ ev.click # "" /\ asksTooMuch(ev.before, ev.click) => gs.profile = ev.before

\* a click on a sixth card of which the inventory holds a copy
SixthCardRefused ==
  /\ ev.click # ""
  /\ Len(ev.before.equippedCardIds) = MAX_EQUIPPED_CARDS
  /\ countOf(ev.before, ev.click) > 0
  /\ asksTooMuch(ev.before, ev.click)
  /\ gs.profile = ev.before

\* C17: a player bullet goes only when its piercingLeft reaches 0 or its
\* age exceeds BULLET_LIFESPAN: a bullet that hit an obstacle, a barrel or
\* a monster in the frame and has piercingLeft > 0 after the decrement is
\* in flight in the state the frame returns, with the decremented count.
PiercingBulletSurvives ==
  \A i \in 1..Len(ev.shots) :
    ev.shots[i].hitSomething /\ ev.shots[i].piercingLeft > 0
      => \E j \in 1..Len(gs.bullets) :
           /\ gs.bullets[j].createdAt = ev.shots[i].createdAt
           /\ gs.bullets[j].piercingLeft = ev.shots[i].piercingLeft

\* C18: a boss that enters 'charging' stays in it for more than 1500 ms
\* before it is 'dashing', and never goes from 'hesitate' to 'dashing'
\* within one frame: a boss that a frame leaves dashing was dashing before
\* the frame, or was charging and had been for more than 1500 ms.
DashAfterTelegraph ==
  [][\A i \in 1..Len(gs.monsters) : \A j \in 1..Len(gs'.monsters) :
       /\ gs.monsters[i].type = "boss"
       /\ gs'.monsters[j].id = gs.monsters[i].id
       /\ gs'.monsters[j].aiState.type = "dashing"
       /\ gs.monsters[i].aiState.type # "dashing"
       => /\ gs.monsters[i].aiState.type = "charging"
          /\ now' - gs.monsters[i].aiState.lastActionTime > 1500]_vars

\* C19: for 2000 ms after a phase transition the boss is invincible: a
\* frame at a time before the invincibleUntil the boss holds when the
\* frame starts does not reduce the boss's health.
BossInvincible ==
  [][\A i \in 1..Len(gs.monsters) : \A j \in 1..Len(gs'.monsters) :
       /\ gs.monsters[i].type = "boss"
       /\ gs'.monsters[j].id = gs.monsters[i].id
       /\ now' < gs.monsters[i].invincibleUntil
       => gs'.monsters[j].health >= gs.monsters[i].health]_vars

triggeredAtStep(b) ==
  \/ b.health <= 0
  \/ checkCollision(ev'.barrelStep.player[1], b)
  \/ \E i \in 1..Len(ev'.barrelStep.monsters) :
        /\ ev'.barrelStep.monsters[i].diesAt = 0
        /\ checkCollision(ev'.barrelStep.monsters[i], b)

\* C21 as stated: the barrels that explode in a frame are the ones that
\* meet a trigger when the barrel step begins, whatever the explosions do;
\* each of them is gone from the state the frame returns.
BarrelsBatchedAsStated ==
  [][ (now' # now /\ ~ev'.gated) =>
        \A i \in 1..Len(ev'.barrelStep.explosiveBarrels) :
          LET b == ev'.barrelStep.explosiveBarrels[i] IN
          /\ triggeredAtStep(b) <=> \E k \in 1..Len(ev'.exploded) : ev'.exploded[k].id = b.id
          /\ triggeredAtStep(b) => \A k \in 1..Len(gs'.explosiveBarrels) : gs'.explosiveBarrels[k].id # b.id
    ]_vars

\* the ids of the bosses of state g that are not dying
livingBosses(g) ==
  { g.monsters[i].id : i \in { k \in 1..Len(g.monsters) :
                                 g.monsters[k].type = "boss" /\ g.monsters[k].diesAt = 0 } }

\* the ids of the bosses the frame from gs to gs' has added
newBosses ==
  { gs'.monsters[i].id : i \in { k \in 1..Len(gs'.monsters) : gs'.monsters[k].type = "boss" } }
    \ { gs.monsters[i].id : i \in 1..Len(gs.monsters) }

\* state g holds a monster that is neither a boss nor dying
othersLeft(g) ==
  \E i \in 1..Len(g.monsters) : g.monsters[i].type # "boss" /\ g.monsters[i].diesAt = 0

\* C22: while the wave waits for the field to clear no boss is spawned and
\* a non-boss monster that is not dying exists; the frame that reaches the
\* director while waiting (or reaching the threshold) with no such monster
\* left spawns exactly one boss and sets isBossWave; a boss is spawned in
\* no other frame, so at most one boss is alive at any time and isBossWave
\* implies that one is.
OneBossPerWave ==
  [][ (now' # now /\ ~ev'.gated) =>
        /\ gs'.isWaitingForBossClear => newBosses = {} /\ othersLeft(gs')
        /\ newBosses # {} =>
              /\ Cardinality(newBosses) = 1
              /\ gs.isWaitingForBossClear \/ ev'.reached
              /\ ~gs.isBossWave /\ gs'.isBossWave
              /\ ~othersLeft(gs')
              /\ livingBosses(gs) = {}
        /\ ((gs.isWaitingForBossClear \/ ev'.reached) /\ ev'.directorRan /\ ~othersLeft(gs'))
              => Cardinality(newBosses) = 1 /\ gs'.isBossWave
        /\ Cardinality(livingBosses(gs')) <= 1
        /\ gs'.isBossWave => livingBosses(gs') # {}
    ]_vars

\* the wave waited for the field to clear, and the frame that found it
\* clear has spawned the boss
BossAfterWaiting ==
  /\ gs.isBossWave /\ ~ev.reached /\ ev.directorRan
  /\ Cardinality(livingBosses(gs)) = 1
  /\ \E i \in 1..Len(gs.monsters) : gs.monsters[i].type = "boss" /\ gs.monsters[i].aiState.type = "none"

\* the frame from gs to gs' left a boss dying that was alive in a boss wave
bossDiesInFrame ==
  /\ gs.isBossWave
  /\ \E i \in 1..Len(gs.monsters), j \in 1..Len(gs'.monsters) :
        /\ gs.monsters[i].type = "boss" /\ gs.monsters[i].diesAt = 0
        /\ gs'.monsters[j].id = gs.monsters[i].id /\ gs'.monsters[j].diesAt # 0

BossEdges ==
  { << "hesitate", "barrage" >>, << "hesitate", "charging" >>, << "hesitate", "throwing" >>,
    << "barrage", "hesitate" >>, << "charging", "dashing" >>, << "dashing", "hesitate" >>,
    << "throwing", "hesitate" >> }

\* the aiState.type of boss b before and after a step follows the machine:
\* unchanged, a listed edge, the first state of a boss that had none, or a
\* reset to hesitate; and a boss of phase 1 is neither charging nor dashing
alongEdges(b, c) ==
  /\ \/ c.aiState.type = b.aiState.type
     \/ << b.aiState.type, c.aiState.type >> \in BossEdges
     \/ b.aiState.type = "none"
     \/ c.aiState.type = "hesitate"
  /\ c.phase <= 1 => c.aiState.type \notin { "charging", "dashing" }

\* C24: from one frame to the next the aiState.type of a boss changes only
\* along hesitate->barrage, hesitate->charging, hesitate->throwing,
\* barrage->hesitate, charging->dashing, dashing->hesitate and
\* throwing->hesitate (or is reset to hesitate), and a boss in phase 1 is
\* never charging or dashing
BossFollowsMachine ==
  [][\A i \in 1..Len(gs.monsters) : \A j \in 1..Len(gs'.monsters) :
       (gs.monsters[i].type = "boss" /\ gs'.monsters[j].id = gs.monsters[i].id)
         => alongEdges(gs.monsters[i], gs'.monsters[j])]_vars

\* the part of C24 about phase 1 alone
BossPhaseOneNeverDashes ==
  \A i \in 1..Len(gs.monsters) :
    (gs.monsters[i].type = "boss" /\ gs.monsters[i].phase <= 1)
       => gs.monsters[i].aiState.type \notin { "charging", "dashing" }


\* the monster of gs with index i is dying when the frame begins
dyingBefore(i) == gs.monsters[i].diesAt # 0

after(m) == { j \in 1..Len(gs'.monsters) : gs'.monsters[j].id = m.id }

\* C26 as stated: in a frame that runs, a monster starts dying exactly when
\* the frame leaves it without health, and then diesAt is the frame's
\* time; the diesAt of a dying monster never changes; a dying monster stays
\* in the list while now - diesAt < DEATH_ANIMATION_DURATION and is gone after
\* the first frame with now - diesAt >= DEATH_ANIMATION_DURATION
DiesAtAsStated ==
  [][ (now' # now /\ ~ev'.gated) =>
        \A i \in 1..Len(gs.monsters) :
          LET m == gs.monsters[i] IN
          /\ m.diesAt = 0 =>
               \A j \in after(m) :
                 /\ gs'.monsters[j].diesAt # 0 <=> gs'.monsters[j].health <= 0
                 /\ gs'.monsters[j].diesAt \in { 0, now' }
          /\ m.diesAt # 0 =>
               /\ \A j \in after(m) : gs'.monsters[j].diesAt = m.diesAt
               /\ after(m) # {} <=> now' - m.diesAt < DEATH_ANIMATION_DURATION
    ]_vars


\* monster m is a wisp in the 'teleporting' state
teleportingWisp(m) == m.type = "wisp" /\ m.aiState.type = "teleporting"

\* C27 as stated: a wisp that is teleporting while the bullets and the
\* collisions of a frame are worked out is not hit by a bullet, keeps its
\* health and deals no contact damage (the player is not hurt when nothing
\* but teleporting wisps touches the player and no barrel explodes)
WispUntargetable ==
  [][ (now' # now /\ ~ev'.gated) =>
        /\ \A j \in 1..Len(gs'.monsters) : teleportingWisp(gs'.monsters[j]) =>
             /\ \A i \in 1..Len(gs.monsters) :
                  gs.monsters[i].id = gs'.monsters[j].id => gs'.monsters[j].health = gs.monsters[i].health
             /\ \A k \in 1..Len(ev'.shots) : ev'.shots[k].monster # gs'.monsters[j].id
        /\ ( /\ ev'.exploded = << >>
             /\ \A j \in 1..Len(gs'.monsters) :
                  checkCollision(gs'.player, gs'.monsters[j]) => teleportingWisp(gs'.monsters[j]) )
           => ev'.hits = << >>
    ]_vars

\* the number of homing bullets monster m has fired in the frame to gs'
firedBy(m) == Cardinality({ k \in 1..Len(ev'.homing) : ev'.homing[k].sourceId = m.id })

\* wisp a of gs is the wisp b of gs' one frame later: the steps of its cycle
wispCycle(a, b) ==
  LET begins == /\ b.aiState.type = "teleporting"
                /\ (a.aiState.type # "teleporting" \/ b.aiState.teleportData # a.aiState.teleportData)
      due == now' >= a.aiState.teleportData[1].startTime + WISP_TELEPORT_DURATION
  IN  /\ begins => /\ a.aiState.lastAttackTime = 0
                      \/ now' - a.aiState.lastAttackTime > WISP_TELEPORT_COOLDOWN
                   /\ ~a.aiState.isChargingAttack
      /\ a.aiState.type = "teleporting" =>
           IF due THEN b.aiState.type = "hesitate" /\ b.position = a.aiState.teleportData[1].to
                  ELSE b.aiState.type = "teleporting" /\ b.position = a.position
      /\ firedBy(a) <= 1
      /\ firedBy(a) = 1 <=> a.aiState.isChargingAttack /\ ~b.aiState.isChargingAttack
      /\ firedBy(a) = 1 => /\ a.aiState.type = "hesitate" /\ b.aiState.type = "hesitate"
                           /\ now' - a.aiState.lastActionTime > 1000

\* C28 as stated: a wisp starts a teleport only when more than
\* WISP_TELEPORT_COOLDOWN has passed since it started the one before, and
\* only after it has fired the bullet of the one before; it reappears at the
\* place chosen in the first frame WISP_TELEPORT_DURATION after the start;
\* it fires one homing bullet per teleport, more than 1000 ms after it
\* reappeared and never while teleporting
WispCycleAsStated ==
  [][ (now' # now /\ ~ev'.gated) =>
        \A i \in 1..Len(gs.monsters) : \A j \in 1..Len(gs'.monsters) :
          (gs.monsters[i].type = "wisp" /\ gs'.monsters[j].id = gs.monsters[i].id)
             => wispCycle(gs.monsters[i], gs'.monsters[j])
    ]_vars


\* where bullet b is after the move of a frame
lastPosition(b) ==
  handleWrapAround([b EXCEPT !.position = Vec(b.position.x + b.velocity.x, b.position.y + b.velocity.y)])

\* bullet b of gs is no longer in flight in gs'
retired(b) ==
  ~\E j \in 1..Len(gs'.bullets) :
     gs'.bullets[j].createdAt = b.createdAt /\ gs'.bullets[j].velocity = b.velocity

\* C29 as stated: in the frame that retires a bullet with an onImpact
\* descriptor, by the end of its lifespan or by a hit, one damage zone is
\* created at the bullet's last position
ZonePerRetiredBullet ==
  [][ (now' # now /\ ~ev'.gated) =>
        \A k \in 1..Len(gs.bullets) :
          (gs.bullets[k].onImpact # << >> /\ retired(gs.bullets[k])) =>
             Cardinality({ z \in 1..Len(gs'.damageZones) :
                             /\ gs'.damageZones[z].createdAt = now'
                             /\ gs'.damageZones[z].position = lastPosition(gs.bullets[k]) }) = 1
    ]_vars

\* the part of C29 that is about the end of the lifespan alone
ZonePerExpiredBullet ==
  [][ (now' # now /\ ~ev'.gated) =>
        \A k \in 1..Len(gs.bullets) :
          (gs.bullets[k].onImpact # << >> /\ now' - gs.bullets[k].createdAt > BULLET_LIFESPAN) =>
             /\ retired(gs.bullets[k])
             /\ Cardinality({ z \in 1..Len(gs'.damageZones) :
                                /\ gs'.damageZones[z].createdAt = now'
                                /\ gs'.damageZones[z].position = lastPosition(gs.bullets[k]) }) = 1
    ]_vars


\* C30: a frame that runs with the experience at or above xpToNextLevel
\* once the gems are collected raises the level by one, takes the old
\* xpToNextLevel off the experience, sets xpToNextLevel to the floor of 1.5
\* times the old one, sets isLevelingUp and offers three different upgrades;
\* this holds again for the next such frame when the experience left is
\* still at or above the new xpToNextLevel.  Any other frame that runs
\* leaves level and xpToNextLevel alone.
LevelUpStep ==
  [][ (now' # now /\ ~ev'.gated) =>
        IF ev'.collected >= gs.player.xpToNextLevel * 100
        THEN /\ gs'.player.level = gs.player.level + 1
             /\ gs'.player.xp = ev'.collected - gs.player.xpToNextLevel * 100
             /\ 2 * gs'.player.xpToNextLevel <= 3 * gs.player.xpToNextLevel
             /\ 3 * gs.player.xpToNextLevel < 2 * gs'.player.xpToNextLevel + 2
             /\ gs'.isLevelingUp
             /\ Len(gs'.levelUpChoices) = 3
             /\ Cardinality({ gs'.levelUpChoices[i] : i \in 1..3 }) = 3
             /\ \A i \in 1..3 : \E k \in 1..Len(PREDEFINED_UPGRADES) :
                  gs'.levelUpChoices[i] = PREDEFINED_UPGRADES[k]
        ELSE /\ gs'.player.level = gs.player.level
             /\ gs'.player.xpToNextLevel = gs.player.xpToNextLevel
             /\ ~gs'.isLevelingUp
    ]_vars

\* the second level-up in a row: the first one, at 290 points, left 190,
\* which is above the new xpToNextLevel of 150; the next frame that ran
\* collected the boss's gem of 200 once more and levelled up again
LevelUpAgain ==
  /\ ~ev.gated /\ gs.isLevelingUp
  /\ gs.player.level = 3 /\ gs.player.xpToNextLevel = 225
  /\ ev.collected = 390 * 100 /\ gs.player.xp = 240 * 100
  /\ gs.levelUpChoices = << "add_shield_1", "max_shield_1", "pierce_up_1" >>


\* the entity of the sliding session, placed at (x, y), overlaps nothing
clearAt(x, y) ==
  \A i \in 1..Len(SlideObstacles) :
    \/ x >= SlideObstacles[i].position.x + SlideObstacles[i].size.width
    \/ x + gs.size.width <= SlideObstacles[i].position.x
    \/ y >= SlideObstacles[i].position.y + SlideObstacles[i].size.height
    \/ y + gs.size.height <= SlideObstacles[i].position.y

\* C31: getSlidingMove returns x + dx if the entity at (x + dx, y) overlaps
\* no obstacle or barrel and x otherwise; it returns y + dy if the entity at
\* (the returned x, y + dy) overlaps none and y otherwise; an entity that
\* overlaps nothing where it starts overlaps nothing where it is returned.
SlidingMove ==
  /\ ev.slides > 0 =>
       /\ gs.position.x = IF clearAt(ev.before.x + ev.moveVector.x * ev.speed, ev.before.y)
                          THEN ev.before.x + ev.moveVector.x * ev.speed ELSE ev.before.x
       /\ gs.position.y = IF clearAt(gs.position.x, ev.before.y + ev.moveVector.y * ev.speed)
                          THEN ev.before.y + ev.moveVector.y * ev.speed ELSE ev.before.y
       /\ clearAt(ev.before.x, ev.before.y) => clearAt(gs.position.x, gs.position.y)

\* an entity that started clear of everything moved diagonally at a corner:
\* the move along x was reverted, the move along y was kept although the
\* entity at (x + dx, y + dy) would overlap
SlidAlongEdge ==
  /\ ev.slides > 0
  /\ clearAt(ev.before.x, ev.before.y)
  /\ ev.moveVector.x # 0 /\ ev.moveVector.y # 0
  /\ gs.position.x = ev.before.x /\ gs.position.y # ev.before.y
  /\ ~clearAt(ev.before.x + ev.moveVector.x * ev.speed, gs.position.y)


\* list with e put in at position p
putAt(list, e, p) == SubSeq(list, 1, p - 1) \o << e >> \o SubSeq(list, p, Len(list))

\* a frame that ran has recorded a hit that left the player no health
diedNow == now' # now /\ ~ev'.gated /\ \E k \in 1..Len(ev'.hits) : ev'.hits[k].healthAfter <= 0

\* C32: the frame in which a hit takes the player's health to 0 sets
\* isGameOver and writes the run into the leaderboard once: the new list is
\* the old one with one entry put in, sorted by descending score and cut
\* to ten entries; the entry has the run's wave and the score the run had
\* when the hit landed (kills rewarded later in the frame raise the score
\* of the state, not of the entry).  No other step, in the same frame or
\* later, changes the leaderboard.
GameOverOnce ==
  [][ IF diedNow
      THEN /\ gs'.isGameOver /\ gs'.player.health = 0
           /\ \A i \in 1..Len(gs'.leaderboard) : \A j \in i..Len(gs'.leaderboard) :
                gs'.leaderboard[i].score >= gs'.leaderboard[j].score
           /\ \E p \in 1..Len(gs.leaderboard) + 1 : \E sc \in gs.score..gs'.score :
                LET all == putAt(gs.leaderboard, [score |-> sc, wave |-> gs.wave], p)
                IN  gs'.leaderboard = SubSeq(all, 1, Min(10, Len(all)))
      ELSE gs'.leaderboard = gs.leaderboard
    ]_vars

\* the run ended with 50 points in wave 1 and stands on the leaderboard of
\* ten behind the two earlier runs with 50 points; the run with 20 points
\* has left the list
GameOverRecorded ==
  /\ gs.isGameOver /\ ~ev.gated /\ gs.player.health = 0
  /\ Len(gs.leaderboard) = 10
  /\ gs.leaderboard[6] = [score |-> 50, wave |-> 2]
  /\ gs.leaderboard[7] = [score |-> 50, wave |-> 1]
  /\ gs.leaderboard[8] = [score |-> 50, wave |-> 1]
  /\ gs.leaderboard[10] = [score |-> 30, wave |-> 1]


\* C33 as stated: a gem whose experience a frame has added to the player's
\* is not among the gems of the state the frame returns, whether or not
\* the frame ends in a level-up.  (A gem is known by the monster that
\* dropped it.)
GemCreditedOnce ==
  [][ (now' # now /\ ~ev'.gated) =>
        \A c \in 1..Len(ev'.credited) :
          \A k \in 1..Len(gs'.experienceGems) : gs'.experienceGems[k].owner # ev'.credited[c]
    ]_vars

\* the part of C33 that is about the frames that do not end in a level-up
GemGoneUnlessLevelUp ==
  [][ (now' # now /\ ~ev'.gated /\ ~gs'.isLevelingUp) =>
        \A c \in 1..Len(ev'.credited) :
          \A k \in 1..Len(gs'.experienceGems) : gs'.experienceGems[k].owner # ev'.credited[c]
    ]_vars


\* C34 as stated: in no state is a player without health still playing,
\* whether a hit or the dash of a boss took the health.
NoHealthIsGameOver == gs.player.health <= 0 => gs.isGameOver

\* the part of C34 that is about hits: a frame in which a hit has left the
\* player no health sets isGameOver
NoHealthByHitIsGameOver ==
  [][ (now' # now /\ ~ev'.gated /\ \E k \in 1..Len(ev'.hits) : ev'.hits[k].healthAfter <= 0)
        => gs'.isGameOver ]_vars


\* C35 as stated: a call of handleLevelUpSelect in a state that is not
\* waiting for an upgrade choice leaves the player, the weapons and the
\* score as they are.  (Between two frames only that call and the pause key
\* change a state that is not waiting for a choice.)
SelectOncePerLevelUp ==
  [][ (now' = now /\ ~gs.isLevelingUp) =>
        /\ gs'.player = gs.player
        /\ gs'.equippedWeapons = gs.equippedWeapons
        /\ gs'.score = gs.score
    ]_vars


\* C36 as stated: in a frame that finds the weapon in use (the weapon of
\* the selected slot, or the pistol if the slot is empty) with an empty
\* clip, rounds in reserve and no reload running, a reload starts; and a
\* frame in which the reload of such a weapon is due leaves the weapon in
\* use with rounds in its clip, or has already fired one of them.
EmptyClipReloads ==
  [][ (now' # now /\ ~ev'.gated
         /\ weaponInUse(gs).ammoInClip <= 0 /\ weaponInUse(gs).durability > 0) =>
        /\ ~gs.player.isReloading => gs'.player.isReloading
        /\ (gs.player.isReloading /\ now' >= gs.player.reloadUntil) =>
              (weaponInUse(gs').ammoInClip > 0 \/ gs'.lastShotTime = now')
    ]_vars

\* the part of C36 that is about the weapon of a slot, in a frame that
\* does not end in a level-up
SlotReloads ==
  [][ (now' # now /\ ~ev'.gated /\ ~gs'.isLevelingUp
         /\ gs.equippedWeapons[gs.player.equippedWeaponIndex] # NoWeapon
         /\ weaponInUse(gs).ammoInClip <= 0 /\ weaponInUse(gs).durability > 0) =>
        /\ ~gs.player.isReloading => gs'.player.isReloading
        /\ (gs.player.isReloading /\ now' >= gs.player.reloadUntil) =>
              (weaponInUse(gs').ammoInClip > 0 \/ gs'.lastShotTime = now')
    ]_vars

\* what the code does for the pistol: a frame in which a reload is due
\* while the selected slot is empty moves no round into the pistol's clip
PistolLeftEmpty ==
  [][ (now' # now /\ ~ev'.gated /\ gs.equippedWeapons[gs.player.equippedWeaponIndex] = NoWeapon
         /\ gs.player.isReloading /\ now' >= gs.player.reloadUntil) =>
        gs'.pistol.ammoInClip = gs.pistol.ammoInClip
    ]_vars


\* C37: no state has more than MAX_ALLIES allies on the field.
AlliesWithinMax == Len(gs.allies) <= MAX_ALLIES

\* allies arrived while allies of the arrival before were still in the
\* list, more than MAX_ALLIES were in the list during the frame, and the
\* frame left MAX_ALLIES of them
AlliesReplaced ==
  /\ Len(ev.allies) > MAX_ALLIES
  /\ Len(gs.allies) = MAX_ALLIES
  /\ \A i \in 1..Len(gs.allies) : gs.allies[i].spawnTime = now


\* the weapons in the slots of state g are within their bounds: the clip
\* holds between no round and clipSize rounds, the reserve is not negative
clipsWithinBounds(g) ==
  \A i \in 1..Len(g.equippedWeapons) :
    LET w == g.equippedWeapons[i]
    IN  w # NoWeapon => (0 <= w.ammoInClip /\ w.ammoInClip <= w.clipSize /\ w.durability >= 0)

\* C38 as stated: every step leaves the weapons of the slots within their
\* bounds, and a frame in which the reload of the weapon of the selected
\* slot is due (and no weapon is picked up) has moved
\* min(clipSize - ammoInClip, durability) rounds into its clip, less the
\* round the frame may have fired, and has taken them from its reserve
\* unless the reserve is 9999 or more.
ReloadMovesRounds ==
  [][ /\ clipsWithinBounds(gs')
      /\ (now' # now /\ ~ev'.gated /\ gs.player.isReloading /\ now' >= gs.player.reloadUntil
            /\ gs.equippedWeapons[gs.player.equippedWeaponIndex] # NoWeapon
            /\ gs'.weaponDrops = gs.weaponDrops) =>
           LET w == gs.equippedWeapons[gs.player.equippedWeaponIndex]
               reloaded == gs'.equippedWeapons[gs.player.equippedWeaponIndex]
               moved == IF w.clipSize - w.ammoInClip < w.durability
                        THEN w.clipSize - w.ammoInClip ELSE w.durability
               fired == IF gs'.lastShotTime = now' THEN 1 ELSE 0
           IN  /\ reloaded.ammoInClip = w.ammoInClip + moved - fired
               /\ reloaded.durability = IF w.durability < 9999 THEN w.durability - moved
                                      ELSE w.durability
    ]_vars

\* the same for the frames that do not end in a level-up
ReloadMovesRoundsUnlessLevelUp ==
  [][ /\ clipsWithinBounds(gs')
      /\ (now' # now /\ ~ev'.gated /\ gs.player.isReloading /\ now' >= gs.player.reloadUntil
            /\ ~gs'.isLevelingUp
            /\ gs.equippedWeapons[gs.player.equippedWeaponIndex] # NoWeapon
            /\ gs'.weaponDrops = gs.weaponDrops) =>
           LET w == gs.equippedWeapons[gs.player.equippedWeaponIndex]
               reloaded == gs'.equippedWeapons[gs.player.equippedWeaponIndex]
               moved == IF w.clipSize - w.ammoInClip < w.durability
                        THEN w.clipSize - w.ammoInClip ELSE w.durability
               fired == IF gs'.lastShotTime = now' THEN 1 ELSE 0
           IN  /\ reloaded.ammoInClip = w.ammoInClip + moved - fired
               /\ reloaded.durability = IF w.durability < 9999 THEN w.durability - moved
                                      ELSE w.durability
    ]_vars


\* C39 as stated: a monster whose kill a frame has rewarded, and whose gem
\* that frame has credited to the player, is not killed and rewarded again
\* by the next frame, whether or not a level-up cut the first frame short.
KillCountedOnce ==
  [][ (now' # now /\ ~ev'.gated) =>
        \A i \in 1..Len(ev'.kills) :
          ~ \E j \in 1..Len(ev.kills), c \in 1..Len(ev.credited) :
              ev.kills[j] = ev'.kills[i] /\ ev.credited[c] = ev'.kills[i]
    ]_vars

\* what holds of a frame that does not end in a level-up and does not
\* follow one that did: the monsters it rewards were not rewarded by the
\* frame before, they are marked as dying
\* at the time of the frame, and the score has grown by ten times their
\* levels
KillCountedOnceUnlessLevelUp ==
  [][ (now' # now /\ ~ev'.gated /\ ~gs'.isLevelingUp /\ ev.offered = << >>) =>
        /\ \A i \in 1..Len(ev'.kills) :
              /\ \A j \in 1..Len(ev.kills) : ev.kills[j] # ev'.kills[i]
              /\ \E k \in 1..Len(gs.monsters) :
                    gs.monsters[k].id = ev'.kills[i] /\ gs.monsters[k].diesAt = 0
              /\ \A k \in 1..Len(gs'.monsters) :
                    gs'.monsters[k].id = ev'.kills[i] => gs'.monsters[k].diesAt = now'
        /\ gs'.score - gs.score >= 10 * Len(ev'.kills)
    ]_vars


\* the time left at time t until the time until
remaining(until, t) == IF until > t THEN until - t ELSE 0

\* C40 as stated: while the game is paused or waits for an upgrade choice,
\* the passing of time leaves what remains of every buff, of every ally's
\* lifetime, of the reload and of the invincibility as it was.
GatedTimeNotCounted ==
  [][ (now' # now /\ ev'.gated /\ ~gs.isGameOver) =>
        /\ \A k \in 1..Len(gs.player.buffs) :
              LET b == gs.player.buffs[k]
              IN  remaining(b.createdAt + b.duration, now') = remaining(b.createdAt + b.duration, now)
        /\ \A i \in 1..Len(gs.allies) :
              remaining(gs.allies[i].disappearsAt, now') = remaining(gs.allies[i].disappearsAt, now)
        /\ gs.player.isReloading =>
              remaining(gs.player.reloadUntil, now') = remaining(gs.player.reloadUntil, now)
        /\ remaining(gs.player.invincibleUntil, now') = remaining(gs.player.invincibleUntil, now)
    ]_vars

\* what the code does: a frame the gate skips changes no deadline, so the
\* time of the frame counts against each of them
GatedDeadlinesKept ==
  [][ (now' # now /\ ev'.gated) =>
        /\ gs'.player.buffs = gs.player.buffs
        /\ gs'.allies = gs.allies
        /\ gs'.player.reloadUntil = gs.player.reloadUntil
        /\ gs'.player.invincibleUntil = gs.player.invincibleUntil
    ]_vars

====
